---- MODULE Spec2Model ----
(***************************************************************************)
(* The pod-access tracker of the user daemon (package trafficmgr): the     *)
(* podAccessTracker with its mutex, the goroutines it launches for port    *)
(* forwards and SFTP mounts, and the goroutines that call it.              *)
(***************************************************************************)
EXTENDS Naturals, FiniteSets, Sequences, TLC

\* ------------------------------------------------------------- bounds
MaxGroups == 2
MaxChans == 1
MaxPorts == 1
MaxAddrs == 2
MaxLen == 3
MaxQueries == 3
PoolCap == 2
MaxEnvLen == 9
MaxArgLen == 4
MaxStarts == 6
MaxRoutes == 2
MaxAgents == 2

\* ------------------------------------------------------------- universe
\* Goroutines that call the tracker: "w" is the one that runs watchAgentsLoop,
\* "x" is any other goroutine of the daemon.
Callers == {"w", "x"}
\* The ingests of the session; each owns its context, its local ports, its mount
\* point and its mounter.
Ingests == {"A"}
\* podAccessKey{container, podIP}: container c1 of ingest A is served by a pod that
\* changes its IP.
Keys == {"c1/10.0.0.5", "c1/10.0.0.6"}
IngestOf(k) == "A"
NoGroup == 0
NoChan == 0
Groups == 1..MaxGroups
Chans == 1..MaxChans

\* The session's ingests: workloads, the containers an agent may have, what an
\* Ingest request may carry.
Workloads == {"echo-env", "echo"}
AgentContainers == {{}, {"c1"}, {"c1", "c2"}}
IngestKeys == Workloads \X {"c1"}
InterceptRecs == {[mp |-> "/mnt/a", port |-> 0], [mp |-> "/mnt/b", port |-> 8022]}
Requests == [workload : Workloads, container : {"", "c1"},
             mp : {"", "/mnt/a"}, port : {0, 8022}]
NoIngest == [mp |-> "none", port |-> 0]
NoRequest == [workload |-> "", container |-> "", mp |-> "", port |-> 0]
NoKey == <<"", "">>
\* The DNS cache: (name, type, class) keys, the queries in flight at one
\* time, the answers of the cluster or upstream resolver, and the empty entry.
CacheKeys == {"a.A.IN", "b.A.IN"}
Queries == 1..MaxQueries
Answers == {"records", "nxdomain"}
NoEntry == [state |-> "none", val |-> "none"]

\* The environment of TranslateEnvironmentIPs: two keys; values of up to
\* MaxEnvLen characters out of a digit, the dot and a character that is
\* neither, and dotted values with a second digit, of about the length of an
\* address; the first key holds an address or none.
EnvKeys == {"k1", "k2"}
EnvChars == {"1", ".", "x"}
EnvDigits == {"0", "1"}
EnvStrings ==
    UNION {[1..n -> EnvChars] : n \in 0..MaxEnvLen}
        \cup UNION {[1..n -> EnvDigits \cup {"."}] : n \in (MaxEnvLen - 2)..(MaxEnvLen - 1)}
EnvFirst == {<<"x">>, <<"1", ".", "1", ".", "1", ".", "1">>}

\* The arguments of ConsumeUnparsedValue: one argument of up to MaxArgLen
\* characters, out of the dash, the equal sign, the name of the long form,
\* the short form and one more character, between arguments that are values
\* or other flags.
ArgChars == {"-", "=", "n", "z", "v"}
ArgStrings == UNION {[1..n -> ArgChars] : n \in 0..MaxArgLen}
ArgsBefore == {<<>>, << <<"v">> >>}
ArgsAfter == {<<>>, << <<"v">> >>, << <<"-", "v">> >>, << <<"v">>, <<"-", "-", "v">> >>}

\* The goroutines that acquire a socket of the connection pool: enough to
\* exhaust it and to have several of them wait.
PoolCallers == 1..(PoolCap + 3)

NoCall == [rq |-> NoRequest, err |-> "none", key |-> NoKey,
           ensured |-> FALSE, started |-> FALSE]

VARIABLES
    lock,         \* the tracker's sync.Mutex: "free" or the caller that holds it
    mapsNil,      \* TRUE while snapshot and mountsReady are still nil maps
    alivePods,    \* key -> podAccessSync (a group id) or NoGroup
    snapshot,     \* set of keys
    mountsReady,  \* key -> channel or NoChan
    nChans,       \* channels made so far
    closes,       \* channel -> number of close() calls on it
    nGroups,      \* podAccessSync records made so far
    grpKey,       \* group -> its key
    ctxDone,      \* group -> cancelPod was called
    wg,           \* group -> counter of podAccessSync.wg
    fwd,          \* group -> running workerPortForward goroutines of the group
    mnt,          \* group -> state of the SFTP mount goroutine started for it
    mounterWG,    \* ingest -> NoGroup while its mounter is nil, else the group whose wg is m.podWG
    mounterLock,  \* ingest -> its sftpMounter's mutex: NoGroup or the group of the holder
    iceptDone,    \* ingest -> pa.ctx (the ingest's context) is cancelled
    cfgPorts,     \* ingest -> len(pa.localPorts)
    cfgMount,     \* ingest -> pa.shouldMount()
    pc,           \* caller -> position
    arg,          \* caller -> key of the call in progress
    todo,         \* caller -> keys the range loop still has to produce
    maybe,        \* caller -> keys created during the range loop
    cur,          \* caller -> group privateDelete is waiting for
    md,           \* caller -> channel read by start's deferred function
    unlockErr,    \* an Unlock was executed by a caller that did not hold the lock
    panicked,     \* the process died of a runtime panic
    inRound,      \* "w" called initSnapshot and has not finished its cancelUnwanted
    affirmed,     \* keys "w" passed to start since its initSnapshot
    prevRound,    \* the last finished round of "w"
    roundBase,    \* nGroups when the current round of "w" began
    loopPc,       \* position of watchAgentsLoop
    sessDone,     \* the context of watchAgentsLoop is cancelled
    recvErr,      \* the error stream.Recv() returned to watchAgentsLoop
    loopRet,      \* what watchAgentsLoop returned
    agentCtr,          \* workload -> containers of its agent, as the traffic manager has it
    currentAgents,     \* workloads of the session's current agent snapshot
    currentIngests,    \* ingestKey -> ingest (its mount point and port) or NoIngest
    currentIntercepts, \* the mount point and port of every current intercept
    last,              \* the Ingest call of the latest step: request, error, key, what it did
    wk,            \* where Server.Worker is
    inContainer,   \* proc.RunningInContainer()
    rdRet,         \* what tryResolveD returned, and whether c was cancelled then
    workerErr,     \* what Worker returned
    dctx,          \* Worker's context c is cancelled
    gerr,          \* a goroutine of the group g returned an error: g's context is cancelled
    srv,           \* the "Server" goroutine and the state of s.Run
    serverStarted, \* the channel serverStarted is closed
    serverDone,    \* the channel serverDone is closed
    listeners,     \* the DNS listeners: "none", "open" or "closed"
    pool,          \* the connection pool: "none", "open" or "closed"
    nat,           \* where the "NAT-redirect" goroutine is
    ldns,          \* where the "Local DNS" goroutine is
    natI,          \* the command of routeDNS or unrouteDNS that "NAT-redirect" runs next
    fwChain,       \* the nat table has the chain TELEPRESENCE_DNS
    fwRules,       \* the rules of the chain TELEPRESENCE_DNS, in order
    fwOutput,      \* the rules of the chain OUTPUT, in order
    fwRun,         \* some iptables command was run
    cancelFirst,   \* c was cancelled before serverStarted was closed
    poolAddrs,     \* the number of addresses pool.LocalAddrs() returns
    dropSuffixes,  \* s.dropSuffixes
    ovIn,          \* what runOverridingServer found: s.LocalIP and the resolver file
    cacheEntry,    \* DNS cache: the entry of each (name, type, class) key
    cacheCalls,    \* DNS cache: the outstanding cluster/upstream calls of each key
    cacheWait,     \* DNS cache: the key whose call a query is attached to
    cacheAns,      \* DNS cache: the answer a query received
    connPool, \* the connection pool: open or closed, and where each caller of acquire is
    envT, \* a call of TranslateEnvironmentIPs: the provider, env before and env after
    flagT, \* a call of ConsumeUnparsedValue: its arguments and its results
    ftpM, \* an ftpMounter: m.id is set, the Mount, Unmount and SetFtpServer calls made for it, its unmount goroutine, and the context of its ingest
    tp, \* teleproxy in intercept mode: the state of each supervised worker, whether the supervisor is shutting down, whether the bootstrap table is installed, and the outcome of the self check
    rtr, \* a Router: rt.routedSubnets, and of its latest UpdateRoutes call the pleaseProxy list, that of the call before, the subnets routed before, the RemoveSubnet and AddSubnet calls on the device, and the subnets of the device
    agentSnap  \* handleAgentSnapshot: the infos of the snapshot it handles, ig.PodName of the ingest, and whether its Range has visited the ingest

trackerVars == <<lock, mapsNil, alivePods, snapshot, mountsReady, nChans, closes>>
groupVars == <<nGroups, grpKey, ctxDone, wg, fwd, mnt, mounterWG, mounterLock>>
callerVars == <<pc, arg, todo, maybe, cur, md, unlockErr, panicked>>
cfgVars == <<cfgPorts, cfgMount>>
histVars == <<inRound, affirmed>>
roundVars == <<prevRound, roundBase>>
loopVars == <<loopPc, sessDone, recvErr, loopRet>>
ingVars == <<agentCtr, currentAgents, currentIngests, currentIntercepts, last>>
cacheVars == <<cacheEntry, cacheCalls, cacheWait, cacheAns>>
dnsOwn == <<wk, inContainer, rdRet, workerErr, dctx, gerr, srv, serverStarted, serverDone,
            listeners, pool, nat, natI, ldns, fwChain, fwRules, fwOutput, fwRun,
            cancelFirst, poolAddrs, dropSuffixes, ovIn>>
lateVars == <<connPool, envT, flagT, ftpM, tp, rtr, agentSnap>>
baseVars == <<trackerVars, groupVars, callerVars, iceptDone, cfgVars, histVars, roundVars,
              loopVars, ingVars, dnsOwn, cacheVars>>
dnsVars == <<dnsOwn, cacheVars, lateVars>>
PoolRest == <<baseVars, envT, flagT, ftpM, tp, rtr, agentSnap>>  \* all but connPool
EnvRest == <<baseVars, connPool, flagT, ftpM, tp, rtr, agentSnap>>  \* all but envT
FlagRest == <<baseVars, connPool, envT, ftpM, tp, rtr, agentSnap>>  \* all but flagT
FtpRest == <<baseVars, connPool, envT, flagT, tp, rtr, agentSnap>>  \* all but ftpM
TpRest == <<baseVars, connPool, envT, flagT, ftpM, rtr, agentSnap>>  \* all but tp
RtrRest == <<baseVars, connPool, envT, flagT, ftpM, tp, agentSnap>>  \* all but rtr
SnapRest == <<baseVars, connPool, envT, flagT, ftpM, tp, rtr>>  \* all but agentSnap
extVars == <<loopVars, ingVars, dnsVars>>
vars == <<trackerVars, groupVars, callerVars, iceptDone, cfgVars, histVars, roundVars, extVars>>

\* ------------------------------------------------------------- helpers
\* podAccess.shouldForward
ShouldForward(k) == cfgPorts[IngestOf(k)] > 0

\* podAccess.shouldMount
ShouldMount(k) == cfgMount[IngestOf(k)]

AliveKeys == {k \in Keys : alivePods[k] # NoGroup}

Made == 1..nGroups

\* The context of group g is done: its own cancel or the parent's.
Cancelled(g) == ctxDone[g] \/ iceptDone[IngestOf(grpKey[g])]

MntRunning(g) == mnt[g] \in {"queued", "mounted"}

\* Some goroutine started for group g has not returned.
Live(g) == fwd[g] > 0 \/ MntRunning(g)

IsLive_NeverLive(fk) == FALSE

\* privateStart: "Already started?"
IsLive(fk) == alivePods[fk] # NoGroup

IsWanted_Always(fk) == TRUE

IsWanted_Never(fk) == FALSE

\* cancelUnwanted: _, isWanted := lpf.snapshot[fk]
IsWanted(fk) == fk \in snapshot

\* The wait group sftpMounter.Start adds to for a mount of ingest i started with
\* group g: m.podWG, which NewSFTPMounter set when the ingest's mounter was made.
PodWG(i, g) == IF mounterWG[i] = NoGroup THEN g ELSE mounterWG[i]

CancelPod_Parent(g) ==
    [pod |-> [ctxDone EXCEPT ![g] = TRUE],
     icept |-> [iceptDone EXCEPT ![IngestOf(grpKey[g])] = TRUE]]

\* lp.cancelPod(): the cancel function of context.WithCancel(pa.ctx).
CancelPod(g) == [pod |-> [ctxDone EXCEPT ![g] = TRUE], icept |-> iceptDone]

DeleteUnlock_Keep(c) == c

\* privateDelete: lpf.Unlock() before lp.cancelPod() and lp.wg.Wait().
DeleteUnlock(c) == "free"

\* ------------------------------------------------------------- initial state
Init ==
    /\ lock = "free"
    /\ mapsNil = TRUE
    /\ alivePods = [k \in Keys |-> NoGroup]
    /\ snapshot = {}
    /\ mountsReady = [k \in Keys |-> NoChan]
    /\ nChans = 0
    /\ closes = [ch \in Chans |-> 0]
    /\ nGroups = 0
    /\ grpKey = [g \in Groups |-> "none"]
    /\ ctxDone = [g \in Groups |-> FALSE]
    /\ wg = [g \in Groups |-> 0]
    /\ fwd = [g \in Groups |-> 0]
    /\ mnt = [g \in Groups |-> "none"]
    /\ mounterWG = [i \in Ingests |-> NoGroup]
    /\ mounterLock = [i \in Ingests |-> NoGroup]
    /\ iceptDone = [i \in Ingests |-> FALSE]
    /\ cfgPorts \in [Ingests -> 0..MaxPorts]
    /\ cfgMount \in [Ingests -> BOOLEAN]
    /\ pc = [c \in Callers |-> "idle"]
    /\ arg = [c \in Callers |-> "none"]
    /\ todo = [c \in Callers |-> {}]
    /\ maybe = [c \in Callers |-> {}]
    /\ cur = [c \in Callers |-> NoGroup]
    /\ md = [c \in Callers |-> NoChan]
    /\ unlockErr = FALSE
    /\ panicked = FALSE
    /\ inRound = FALSE
    /\ affirmed = {}
    /\ prevRound = [valid |-> FALSE, set |-> {}, alive |-> [k \in Keys |-> NoGroup]]
    /\ roundBase = 0
    /\ loopPc = "top"
    /\ sessDone = FALSE
    /\ recvErr = "none"
    /\ loopRet = "none"
    /\ agentCtr = [w \in Workloads |-> {"c1"}]
    /\ currentAgents = {}
    /\ currentIngests = [k \in IngestKeys |-> NoIngest]
    /\ currentIntercepts = {}
    /\ last = NoCall
    /\ wk = "idle"
    /\ inContainer = FALSE
    /\ rdRet = [res |-> "none", cancelled |-> FALSE]
    /\ workerErr = "none"
    /\ dctx = FALSE
    /\ gerr = FALSE
    /\ srv = "none"
    /\ serverStarted = FALSE
    /\ serverDone = FALSE
    /\ listeners = "none"
    /\ pool = "none"
    /\ nat = "none"
    /\ ldns = "none"
    /\ natI = 0
    /\ fwChain = FALSE
    /\ fwRules = <<>>
    /\ fwOutput = <<"other">>
    /\ fwRun = FALSE
    /\ cancelFirst = FALSE
    /\ poolAddrs = 0
    /\ dropSuffixes = <<>>
    /\ ovIn = [ipSet |-> TRUE, read |-> FALSE, ns |-> "none"]
    /\ cacheEntry = [k \in CacheKeys |-> NoEntry]
    /\ cacheCalls = [k \in CacheKeys |-> 0]
    /\ cacheWait = [q \in Queries |-> "none"]
    /\ cacheAns = [q \in Queries |-> "none"]
    /\ connPool = [open |-> TRUE, st |-> [c \in PoolCallers |-> "idle"]]
    /\ envT = [called |-> FALSE, v4 |-> FALSE, env |-> [k \in EnvKeys |-> <<>>], out |-> [k \in EnvKeys |-> <<>>]]
    /\ flagT = [called |-> FALSE, long |-> <<>>, short |-> "", isBool |-> FALSE, args |-> <<>>, val |-> <<>>, found |-> FALSE, out |-> <<>>, err |-> FALSE, panic |-> FALSE]
    /\ ftpM = [id |-> FALSE, mounts |-> 0, unmounts |-> 0, addr |-> "none", gor |-> "none", ctxDone |-> FALSE, starts |-> 0, last |-> "none"]
    /\ tp = [st |-> [w \in {"NAT", "API", "DNS", "PXY", "CFG", "RDY"} |-> "waiting"], shutdown |-> FALSE, redirect |-> FALSE, check |-> "none"]
    /\ rtr = [routedSubnets |-> <<>>, called |-> 0, pleaseProxy |-> <<>>, prevProxy |-> <<>>, prevRouted |-> <<>>, removed |-> <<>>, added |-> <<>>, device |-> {}]
    /\ agentSnap = [infos |-> <<>>, PodName |-> "echo-5", ranged |-> TRUE]

\* ------------------------------------------------------------- the tracker
\* sync.Mutex.Unlock by caller c.
Unlocked(c) == lock = c

\* close(ch): counts the close; closing a closed channel panics.
CloseChan(ch) ==
    /\ closes' = [closes EXCEPT ![ch] = @ + 1]
    /\ panicked' = (closes[ch] >= 1)

\* initSnapshot: new empty snapshot and mountsReady maps, under the lock.
InitSnapshot(c) ==
    /\ ~panicked
    /\ pc[c] = "idle"
    /\ c = "w" => ~inRound
    /\ lock = "free"
    /\ mapsNil' = FALSE
    /\ snapshot' = {}
    /\ mountsReady' = [k \in Keys |-> NoChan]
    /\ inRound' = (inRound \/ c = "w")
    /\ affirmed' = IF c = "w" THEN {} ELSE affirmed
    /\ UNCHANGED <<lock, alivePods, nChans, closes, groupVars, callerVars, iceptDone,
                   cfgVars>>

Launches_Unchecked(fk) == ~IsLive(fk)

\* privateStart launches a new group for fk.
Launches(fk) == (ShouldForward(fk) \/ ShouldMount(fk)) /\ ~IsLive(fk)

\* privateStart when it starts something: context.WithCancel, startMount (which
\* makes the ingest's SFTP mounter if there is none and calls its Start),
\* startForwards, alivePods[fk] = lp.
PrivateStart(fk) ==
    LET g == nGroups + 1
        i == IngestOf(fk)
        ports == cfgPorts[i]
        wg1 == [wg EXCEPT ![g] = @ + ports]
    IN  /\ nGroups' = g
        /\ grpKey' = [grpKey EXCEPT ![g] = fk]
        /\ alivePods' = [alivePods EXCEPT ![fk] = g]
        /\ fwd' = [fwd EXCEPT ![g] = ports]
        /\ IF ShouldMount(fk)
           THEN /\ mounterWG' = [mounterWG EXCEPT ![i] = PodWG(i, g)]
                /\ wg' = [wg1 EXCEPT ![PodWG(i, g)] = @ + 1]
                /\ mnt' = [mnt EXCEPT ![g] = "queued"]
           ELSE /\ wg' = wg1
                /\ UNCHANGED <<mounterWG, mnt>>
        \* an entry made while another goroutine ranges over alivePods may or may
        \* not be produced by that range
        /\ maybe' = [c \in Callers |->
                        IF pc[c] \in {"cu_loop", "cu_wait"} THEN maybe[c] \cup {fk} ELSE maybe[c]]
        /\ todo' = [c \in Callers |-> todo[c] \ {fk}]
        /\ UNCHANGED <<ctxDone, mounterLock>>

\* start, from lpf.Lock() to lpf.Unlock(). Writing to the nil snapshot map of a
\* tracker that never ran initSnapshot panics.
Start(c, fk) ==
    /\ ~panicked
    /\ pc[c] = "idle"
    /\ c = "w" => inRound
    /\ lock = "free"
    /\ Launches(fk) => nGroups < MaxGroups
    /\ IF mapsNil
       THEN /\ panicked' = TRUE
            /\ UNCHANGED <<lock, mapsNil, alivePods, snapshot, mountsReady, nChans, closes,
                           groupVars, pc, arg, todo, maybe, cur, md, unlockErr,
                           iceptDone, cfgVars, histVars>>
       ELSE /\ snapshot' = snapshot \cup {fk}
            /\ IF Launches(fk)
               THEN PrivateStart(fk)
               ELSE UNCHANGED <<alivePods, groupVars, todo, maybe>>
            /\ pc' = [pc EXCEPT ![c] = "st_defer"]
            /\ arg' = [arg EXCEPT ![c] = fk]
            /\ affirmed' = IF c = "w" THEN affirmed \cup {fk} ELSE affirmed
            /\ UNCHANGED <<lock, mapsNil, mountsReady, nChans, closes, cur, md, unlockErr,
                           panicked, iceptDone, cfgVars, inRound>>

\* start's deferred function, which runs after lpf.Unlock():
\* md, ok := lpf.mountsReady[fk]
StartDefer(c) ==
    /\ ~panicked
    /\ pc[c] = "st_defer"
    /\ md' = [md EXCEPT ![c] = mountsReady[arg[c]]]
    /\ pc' = [pc EXCEPT ![c] = IF mountsReady[arg[c]] = NoChan THEN "idle" ELSE "st_close"]
    /\ arg' = [arg EXCEPT ![c] = IF mountsReady[arg[c]] = NoChan THEN "none" ELSE @]
    /\ UNCHANGED <<trackerVars, groupVars, todo, maybe, cur, unlockErr, panicked,
                   iceptDone, cfgVars, histVars>>

\* start's deferred function: delete(lpf.mountsReady, fk); close(md)
StartClose(c) ==
    /\ ~panicked
    /\ pc[c] = "st_close"
    /\ mountsReady' = [mountsReady EXCEPT ![arg[c]] = NoChan]
    /\ CloseChan(md[c])
    /\ pc' = [pc EXCEPT ![c] = "idle"]
    /\ arg' = [arg EXCEPT ![c] = "none"]
    /\ md' = [md EXCEPT ![c] = NoChan]
    /\ UNCHANGED <<lock, mapsNil, alivePods, snapshot, nChans, groupVars, todo, maybe,
                   cur, unlockErr, iceptDone, cfgVars, histVars>>

\* getOrCreateMountsDone when the key has no channel (otherwise it returns the
\* channel of the map and changes nothing). Writing to the nil map panics.
GetOrCreateMountsDone(c, fk) ==
    /\ ~panicked
    /\ pc[c] = "idle"
    /\ lock = "free"
    /\ mountsReady[fk] = NoChan
    /\ IF mapsNil
       THEN /\ panicked' = TRUE
            /\ UNCHANGED <<mountsReady, nChans>>
       ELSE /\ nChans < MaxChans
            /\ nChans' = nChans + 1
            /\ mountsReady' = [mountsReady EXCEPT ![fk] = nChans + 1]
            /\ UNCHANGED panicked
    /\ UNCHANGED <<lock, mapsNil, alivePods, snapshot, closes, groupVars, pc, arg, todo,
                   maybe, cur, md, unlockErr, iceptDone, cfgVars, histVars>>

\* cancelUnwanted, up to the start of the range over alivePods.
CancelUnwantedLock(c) ==
    /\ ~panicked
    /\ pc[c] = "idle"
    /\ c = "w" => inRound
    /\ lock = "free"
    /\ lock' = c
    /\ pc' = [pc EXCEPT ![c] = "cu_loop"]
    /\ todo' = [todo EXCEPT ![c] = AliveKeys]
    /\ maybe' = [maybe EXCEPT ![c] = {}]
    /\ UNCHANGED <<mapsNil, alivePods, snapshot, mountsReady, nChans, closes, groupVars,
                   arg, cur, md, unlockErr, panicked, iceptDone, cfgVars, inRound, affirmed>>

\* privateDelete up to lp.wg.Wait(): the entry and its channel go, the lock is
\* released, the group's context is cancelled.
PrivateDelete(c, fk) ==
    LET lp == alivePods[fk]
        cancel == CancelPod(lp)
    IN  /\ alivePods' = [alivePods EXCEPT ![fk] = NoGroup]
        /\ IF mountsReady[fk] # NoChan
           THEN /\ mountsReady' = [mountsReady EXCEPT ![fk] = NoChan]
                /\ CloseChan(mountsReady[fk])
           ELSE UNCHANGED <<mountsReady, closes, panicked>>
        /\ unlockErr' = (unlockErr \/ ~Unlocked(c))
        /\ lock' = DeleteUnlock(c)
        /\ ctxDone' = cancel.pod
        /\ iceptDone' = cancel.icept
        /\ cur' = [cur EXCEPT ![c] = lp]
        /\ pc' = [pc EXCEPT ![c] = "cu_wait"]
        /\ todo' = [d \in Callers |-> todo[d] \ {fk}]
        /\ maybe' = [d \in Callers |-> maybe[d] \ {fk}]

\* One iteration of the range in cancelUnwanted: an entry that was in the map
\* when the range began and still is must be produced, one made since may be.
CancelUnwantedNext(c, fk) ==
    /\ ~panicked
    /\ pc[c] = "cu_loop"
    /\ fk \in todo[c] \cup maybe[c]
    /\ IF IsWanted(fk)
       THEN /\ todo' = [todo EXCEPT ![c] = @ \ {fk}]
            /\ maybe' = [maybe EXCEPT ![c] = @ \ {fk}]
            /\ UNCHANGED <<lock, alivePods, mountsReady, closes, panicked, unlockErr, ctxDone,
                           iceptDone, cur, pc>>
       ELSE PrivateDelete(c, fk)
    /\ UNCHANGED <<mapsNil, snapshot, nChans, nGroups, grpKey, wg, fwd, mnt, mounterWG,
                   mounterLock, arg, md, cfgVars, inRound, affirmed>>

\* privateDelete from the return of lp.wg.Wait() on: lpf.Lock().
CancelUnwantedWaitDone(c) ==
    /\ ~panicked
    /\ pc[c] = "cu_wait"
    /\ wg[cur[c]] = 0
    /\ lock = "free"
    /\ lock' = c
    /\ pc' = [pc EXCEPT ![c] = "cu_loop"]
    /\ cur' = [cur EXCEPT ![c] = NoGroup]
    /\ UNCHANGED <<mapsNil, alivePods, snapshot, mountsReady, nChans, closes, groupVars,
                   arg, todo, maybe, md, unlockErr, panicked, iceptDone, cfgVars, histVars>>

\* cancelUnwanted: the range is over, lpf.Unlock(), return.
CancelUnwantedEnd(c) ==
    /\ ~panicked
    /\ pc[c] = "cu_loop"
    /\ todo[c] = {}
    /\ unlockErr' = (unlockErr \/ ~Unlocked(c))
    /\ lock' = "free"
    /\ pc' = [pc EXCEPT ![c] = "idle"]
    /\ maybe' = [maybe EXCEPT ![c] = {}]
    /\ inRound' = (inRound /\ c # "w")
    /\ UNCHANGED <<mapsNil, alivePods, snapshot, mountsReady, nChans, closes, groupVars,
                   arg, todo, cur, md, panicked, iceptDone, cfgVars, affirmed>>

\* ------------------------------------------------------------- the workers
\* workerPortForward returns because its context is done.
FwdStop(g) ==
    /\ ~panicked
    /\ fwd[g] > 0
    /\ Cancelled(g)
    /\ fwd' = [fwd EXCEPT ![g] = @ - 1]
    /\ wg' = [wg EXCEPT ![g] = @ - 1]
    /\ UNCHANGED <<trackerVars, nGroups, grpKey, ctxDone, mnt, mounterWG, mounterLock,
                   callerVars, iceptDone, cfgVars, histVars>>

\* workerPortForward returns early: a malformed port, or Serve failed.
FwdFail(g) ==
    /\ ~panicked
    /\ fwd[g] > 0
    /\ ~Cancelled(g)
    /\ fwd' = [fwd EXCEPT ![g] = @ - 1]
    /\ wg' = [wg EXCEPT ![g] = @ - 1]
    /\ UNCHANGED <<trackerVars, nGroups, grpKey, ctxDone, mnt, mounterWG, mounterLock,
                   callerVars, iceptDone, cfgVars, histVars>>

MntLock_NoMutex(g) ==
    /\ ~panicked
    /\ mnt[g] = "queued"
    /\ mounterLock' = [mounterLock EXCEPT ![IngestOf(grpKey[g])] = g]
    /\ mnt' = [mnt EXCEPT ![g] = "mounted"]
    /\ UNCHANGED <<trackerVars, nGroups, grpKey, ctxDone, wg, fwd, mounterWG,
                   callerVars, iceptDone, cfgVars, histVars>>

\* The mount goroutine of sftpMounter.Start gets m.Lock() and mounts.
MntLock(g) ==
    /\ ~panicked
    /\ mnt[g] = "queued"
    /\ mounterLock[IngestOf(grpKey[g])] = NoGroup
    /\ mounterLock' = [mounterLock EXCEPT ![IngestOf(grpKey[g])] = g]
    /\ mnt' = [mnt EXCEPT ![g] = "mounted"]
    /\ UNCHANGED <<trackerVars, nGroups, grpKey, ctxDone, wg, fwd, mounterWG,
                   callerVars, iceptDone, cfgVars, histVars>>

\* The mount goroutine returns: unmount, m.Unlock(), m.podWG.Done().
MntReturn(g) ==
    LET i == IngestOf(grpKey[g])
    IN  /\ mnt' = [mnt EXCEPT ![g] = "done"]
        /\ mounterLock' = [mounterLock EXCEPT ![i] = NoGroup]
        /\ wg' = [wg EXCEPT ![mounterWG[i]] = @ - 1]
        /\ UNCHANGED <<trackerVars, nGroups, grpKey, ctxDone, fwd, mounterWG,
                       callerVars, iceptDone, cfgVars, histVars>>

\* backoff.Retry ends because the context is done.
MntStop(g) ==
    /\ ~panicked
    /\ mnt[g] = "mounted"
    /\ Cancelled(g)
    /\ MntReturn(g)

\* backoff.Retry ends because sshfs exited with status 0.
MntExit(g) ==
    /\ ~panicked
    /\ mnt[g] = "mounted"
    /\ ~Cancelled(g)
    /\ MntReturn(g)

\* The owner of the ingest cancels pa.ctx.
IceptCancel(i) ==
    /\ ~panicked
    /\ ~iceptDone[i]
    /\ iceptDone' = [iceptDone EXCEPT ![i] = TRUE]
    /\ UNCHANGED <<trackerVars, groupVars, callerVars, cfgVars, histVars>>

\* ------------------------------------------------------------- specifications
\* Goroutine "w" runs handleAgentSnapshot: initSnapshot first, then the start
\* calls, cancelUnwanted last (the guards c = "w" => ... of the operations). Its
\* Range over currentIngests calls start at most once for each ingest.
OneStartPerIngest(fk) == \A k \in affirmed : IngestOf(k) # IngestOf(fk)

\* History of the rounds of "w": where the round began and how the last one ended.
RecordRound ==
    /\ roundBase' = IF ~inRound /\ inRound' THEN nGroups ELSE roundBase
    /\ prevRound' = IF inRound /\ ~inRound'
                    THEN [valid |-> TRUE, set |-> affirmed, alive |-> alivePods']
                    ELSE prevRound
    /\ UNCHANGED extVars

NoRecord == UNCHANGED <<roundVars, extVars>>

\* "w" reconciles while another goroutine "x" calls any operation at any time.
Next ==
    \/ \E c \in Callers : InitSnapshot(c) /\ NoRecord
    \/ \E fk \in Keys : OneStartPerIngest(fk) /\ Start("w", fk) /\ NoRecord
    \/ \E fk \in Keys : Start("x", fk) /\ NoRecord
    \/ \E c \in Callers : StartDefer(c) /\ NoRecord
    \/ \E c \in Callers : StartClose(c) /\ NoRecord
    \/ \E fk \in Keys : GetOrCreateMountsDone("x", fk) /\ NoRecord
    \/ \E c \in Callers : CancelUnwantedLock(c) /\ NoRecord
    \/ \E c \in Callers, fk \in Keys : CancelUnwantedNext(c, fk) /\ NoRecord
    \/ \E c \in Callers : CancelUnwantedWaitDone(c) /\ NoRecord
    \/ \E c \in Callers : CancelUnwantedEnd(c) /\ NoRecord
    \/ \E g \in Made : FwdStop(g) /\ NoRecord
    \/ \E g \in Made : FwdFail(g) /\ NoRecord
    \/ \E g \in Made : MntLock(g) /\ NoRecord
    \/ \E g \in Made : MntStop(g) /\ NoRecord
    \/ \E g \in Made : MntExit(g) /\ NoRecord
    \/ \E i \in Ingests : IceptCancel(i) /\ NoRecord

Spec == Init /\ [][Next]_vars

\* "w" alone calls initSnapshot, start and cancelUnwanted; "x" only asks for
\* mount-ready channels.
RoundNext ==
    \/ InitSnapshot("w") /\ RecordRound
    \/ \E fk \in Keys : OneStartPerIngest(fk) /\ Start("w", fk) /\ RecordRound
    \/ StartDefer("w") /\ RecordRound
    \/ StartClose("w") /\ RecordRound
    \/ \E fk \in Keys : GetOrCreateMountsDone("x", fk) /\ RecordRound
    \/ CancelUnwantedLock("w") /\ RecordRound
    \/ \E fk \in Keys : CancelUnwantedNext("w", fk) /\ RecordRound
    \/ CancelUnwantedWaitDone("w") /\ RecordRound
    \/ CancelUnwantedEnd("w") /\ RecordRound
    \/ \E g \in Made : FwdStop(g) /\ RecordRound
    \/ \E g \in Made : FwdFail(g) /\ RecordRound
    \/ \E g \in Made : MntLock(g) /\ RecordRound
    \/ \E g \in Made : MntStop(g) /\ RecordRound
    \/ \E g \in Made : MntExit(g) /\ RecordRound
    \/ \E i \in Ingests : IceptCancel(i) /\ RecordRound

RoundSpec == Init /\ [][RoundNext]_vars

\* Rounds of the tracker's interface: initSnapshot, any number of start calls for
\* any keys, cancelUnwanted.
ApiRoundNext ==
    \/ InitSnapshot("w") /\ RecordRound
    \/ \E fk \in Keys : Start("w", fk) /\ RecordRound
    \/ StartDefer("w") /\ RecordRound
    \/ StartClose("w") /\ RecordRound
    \/ \E fk \in Keys : GetOrCreateMountsDone("x", fk) /\ RecordRound
    \/ CancelUnwantedLock("w") /\ RecordRound
    \/ \E fk \in Keys : CancelUnwantedNext("w", fk) /\ RecordRound
    \/ CancelUnwantedWaitDone("w") /\ RecordRound
    \/ CancelUnwantedEnd("w") /\ RecordRound
    \/ \E g \in Made : FwdStop(g) /\ RecordRound
    \/ \E g \in Made : FwdFail(g) /\ RecordRound
    \/ \E g \in Made : MntLock(g) /\ RecordRound
    \/ \E g \in Made : MntStop(g) /\ RecordRound
    \/ \E g \in Made : MntExit(g) /\ RecordRound
    \/ \E i \in Ingests : IceptCancel(i) /\ RecordRound

ApiRoundSpec == Init /\ [][ApiRoundNext]_vars

\* "w" reconciles while "x" calls start and getOrCreateMountsDone, also while
\* cancelUnwanted waits for workers.
CallNext ==
    \/ InitSnapshot("w") /\ NoRecord
    \/ \E fk \in Keys : OneStartPerIngest(fk) /\ Start("w", fk) /\ NoRecord
    \/ \E fk \in Keys : Start("x", fk) /\ NoRecord
    \/ \E c \in Callers : StartDefer(c) /\ NoRecord
    \/ \E c \in Callers : StartClose(c) /\ NoRecord
    \/ \E fk \in Keys : GetOrCreateMountsDone("x", fk) /\ NoRecord
    \/ CancelUnwantedLock("w") /\ NoRecord
    \/ \E fk \in Keys : CancelUnwantedNext("w", fk) /\ NoRecord
    \/ CancelUnwantedWaitDone("w") /\ NoRecord
    \/ CancelUnwantedEnd("w") /\ NoRecord
    \/ \E g \in Made : FwdStop(g) /\ NoRecord
    \/ \E g \in Made : FwdFail(g) /\ NoRecord
    \/ \E g \in Made : MntLock(g) /\ NoRecord
    \/ \E g \in Made : MntStop(g) /\ NoRecord
    \/ \E g \in Made : MntExit(g) /\ NoRecord
    \/ \E i \in Ingests : IceptCancel(i) /\ NoRecord

CallSpec == Init /\ [][CallNext]_vars

\* RoundSpec with the scheduling the runtime gives: a goroutine that can run does
\* run (the steps of cancelUnwanted, a worker whose context is done), and a
\* goroutine blocked in m.Lock() gets the mutex when it is released again and
\* again. Nothing obliges a worker to fail, sshfs to exit, an ingest to be
\* cancelled or another snapshot to arrive.
FairRoundSpec ==
    /\ RoundSpec
    /\ WF_vars(StartDefer("w") /\ RecordRound)
    /\ WF_vars(StartClose("w") /\ RecordRound)
    /\ WF_vars(\E fk \in Keys : CancelUnwantedNext("w", fk) /\ RecordRound)
    /\ WF_vars(CancelUnwantedWaitDone("w") /\ RecordRound)
    /\ WF_vars(CancelUnwantedEnd("w") /\ RecordRound)
    /\ \A g \in Groups : WF_vars(FwdStop(g) /\ RecordRound)
    /\ \A g \in Groups : WF_vars(MntStop(g) /\ RecordRound)
    /\ \A g \in Groups : SF_vars(MntLock(g) /\ RecordRound)

\* handleAgentSnapshot replaces the agent of an ingest whose pod is gone, before
\* it calls start for the ingest; the podAccess is built from the new agent, whose
\* SftpPort and FtpPort decide shouldMount.
ReplaceAgent(i) ==
    /\ ~panicked
    /\ inRound
    /\ pc["w"] = "idle"
    /\ \A k \in affirmed : IngestOf(k) # i
    /\ cfgMount' = [cfgMount EXCEPT ![i] = ~@]
    /\ UNCHANGED <<trackerVars, groupVars, callerVars, iceptDone, cfgPorts, histVars>>

\* The rounds of "w" with agents that come and go with or without a mount port.
PodChangeNext ==
    \/ InitSnapshot("w") /\ NoRecord
    \/ \E i \in Ingests : ReplaceAgent(i) /\ NoRecord
    \/ \E fk \in Keys : OneStartPerIngest(fk) /\ Start("w", fk) /\ NoRecord
    \/ StartDefer("w") /\ NoRecord
    \/ StartClose("w") /\ NoRecord
    \/ \E fk \in Keys : GetOrCreateMountsDone("x", fk) /\ NoRecord
    \/ CancelUnwantedLock("w") /\ NoRecord
    \/ \E fk \in Keys : CancelUnwantedNext("w", fk) /\ NoRecord
    \/ CancelUnwantedWaitDone("w") /\ NoRecord
    \/ CancelUnwantedEnd("w") /\ NoRecord
    \/ \E g \in Made : FwdStop(g) /\ NoRecord
    \/ \E g \in Made : FwdFail(g) /\ NoRecord
    \/ \E g \in Made : MntLock(g) /\ NoRecord
    \/ \E g \in Made : MntStop(g) /\ NoRecord
    \/ \E g \in Made : MntExit(g) /\ NoRecord
    \/ \E i \in Ingests : IceptCancel(i) /\ NoRecord

PodChangeSpec == Init /\ [][PodChangeNext]_vars

\* ---------------------------------------------------------------------------
\* handleAgentSnapshot: the choice of the pod of an ingest.

\* The agents a snapshot may hold: two pods of the ingested workload with the
\* ingested container, a pod of it with another container only, and a pod of
\* another workload.
AgentInfos ==
    {[Name |-> "echo", PodName |-> "echo-5", Containers |-> {"c1"}],
     [Name |-> "echo", PodName |-> "echo-6", Containers |-> {"c1"}],
     [Name |-> "echo", PodName |-> "echo-7", Containers |-> {"c2"}],
     [Name |-> "echo-env", PodName |-> "echo-env-1", Containers |-> {"c1"}]}

\* The snapshots: up to MaxAgents agents, each at most once.
AgentSnapshots ==
    {sn \in UNION {[1..n -> AgentInfos] : n \in 0..MaxAgents} :
        \A i, j \in DOMAIN sn : i # j => sn[i] # sn[j]}

\* The ingestKey of the ingest.
IngestKeyOf(i) == [workload |-> "echo", container |-> "c1"]

\* podAccessKey{container, podIP} of the podAccess made from the agent of pod.
KeyOfPod(pod) == IF pod = "echo-5" THEN "c1/10.0.0.5" ELSE "c1/10.0.0.6"

\* infosForKey
infosForKey(infos, key) ==
    SelectSeq(infos, LAMBDA info : info.Name = key.workload /\ key.container \in info.Containers)

SelectPod_First(ais, podName) == ais[1].PodName

\* slices.IndexFunc(ais, cai.PodName == ig.PodName) < 0 replaces ig.AgentInfo
\* by ais[0].
SelectPod(ais, podName) ==
    IF \E n \in DOMAIN ais : ais[n].PodName = podName THEN podName ELSE ais[1].PodName

AgFrame == <<roundVars, loopVars, agentCtr, currentIngests, currentIntercepts, last, dnsOwn,
             cacheVars, connPool, envT, flagT, ftpM, tp, rtr>>

\* handleAgentSnapshot(ctx, infos) up to the Range: initSnapshot and
\* setCurrentAgents.
HandleBegin(infos) ==
    /\ InitSnapshot("w")
    /\ currentAgents' = {infos[n].Name : n \in DOMAIN infos}
    /\ agentSnap' = [agentSnap EXCEPT !.infos = infos, !.ranged = FALSE]
    /\ UNCHANGED AgFrame

\* The function of the Range for ingest i: with a matching agent in the
\* snapshot, the pod is kept or replaced and start is called.
HandleRange(i) ==
    /\ inRound
    /\ ~agentSnap.ranged
    /\ pc["w"] = "idle"
    /\ LET ais == infosForKey(agentSnap.infos, IngestKeyOf(i))
       IN IF Len(ais) > 0
          THEN LET pod == SelectPod(ais, agentSnap.PodName)
               IN /\ Start("w", KeyOfPod(pod))
                  /\ agentSnap' = [agentSnap EXCEPT !.PodName = pod, !.ranged = TRUE]
          ELSE /\ agentSnap' = [agentSnap EXCEPT !.ranged = TRUE]
               /\ UNCHANGED <<trackerVars, groupVars, callerVars, iceptDone, cfgVars, histVars>>
    /\ UNCHANGED <<currentAgents, AgFrame>>

\* handleAgentSnapshot calls cancelUnwanted when the Range is over.
HandleCancel ==
    /\ agentSnap.ranged
    /\ CancelUnwantedLock("w")
    /\ UNCHANGED <<currentAgents, agentSnap, AgFrame>>

\* watchAgentsLoop handles one snapshot after the other while the workers of
\* the tracker run and another goroutine asks for mount-ready channels.
SnapNext ==
    \/ \E infos \in AgentSnapshots : HandleBegin(infos)
    \/ \E i \in Ingests : HandleRange(i)
    \/ StartDefer("w") /\ NoRecord
    \/ StartClose("w") /\ NoRecord
    \/ \E fk \in Keys : GetOrCreateMountsDone("x", fk) /\ NoRecord
    \/ HandleCancel
    \/ \E fk \in Keys : CancelUnwantedNext("w", fk) /\ NoRecord
    \/ CancelUnwantedWaitDone("w") /\ NoRecord
    \/ CancelUnwantedEnd("w") /\ NoRecord
    \/ \E g \in Made : FwdStop(g) /\ NoRecord
    \/ \E g \in Made : FwdFail(g) /\ NoRecord
    \/ \E g \in Made : MntLock(g) /\ NoRecord
    \/ \E g \in Made : MntStop(g) /\ NoRecord
    \/ \E g \in Made : MntExit(g) /\ NoRecord
    \/ \E i \in Ingests : IceptCancel(i) /\ NoRecord

SnapSpec == Init /\ [][SnapNext]_vars

\* The errors of stream.Recv(): the status of a cancelled context, io.EOF
\* and any other error.
RecvErrors == {"canceled", "eof", "other"}

LoopReturn_Nil(done, err) == "nil"

\* What watchAgentsLoop returns after the empty snapshot was handled:
\* "if ctx.Err() != nil || errors.Is(err, io.EOF)" with done for ctx.Err() != nil.
LoopReturn(done, err) == IF done \/ err = "eof" THEN "nil" ELSE "error"

\* watchAgentsLoop: "for ctx.Err() == nil", stream.Recv(), and a call of
\* handleAgentSnapshot with the agents received, or with none when Recv failed,
\* after which the loop returns.
LoopStep(to) ==
    /\ loopPc' = to
    /\ loopRet' = IF loopPc = "last" /\ to = "returned"
                  THEN LoopReturn(sessDone, recvErr) ELSE loopRet
    /\ UNCHANGED <<sessDone, recvErr, roundVars, ingVars, dnsVars>>

\* Recv failed with the error e; a cancelled context is the only cause of the
\* error "canceled".
RecvFailed(e) ==
    /\ loopPc = "recv"
    /\ e = "canceled" => sessDone
    /\ loopPc' = "last"
    /\ recvErr' = e
    /\ UNCHANGED <<sessDone, loopRet, roundVars, ingVars, dnsVars>>

\* for ctx.Err() == nil
LoopCheck ==
    /\ ~panicked
    /\ loopPc = "top"
    /\ loopPc' = IF sessDone THEN "returned" ELSE "recv"
    /\ loopRet' = IF sessDone THEN "nil" ELSE loopRet
    /\ UNCHANGED <<trackerVars, groupVars, callerVars, iceptDone, cfgVars, histVars,
                   roundVars, sessDone, recvErr, ingVars, dnsVars>>

\* The context that watchAgentsLoop was started with is cancelled.
SessCancel ==
    /\ ~panicked
    /\ ~sessDone
    /\ sessDone' = TRUE
    /\ UNCHANGED <<trackerVars, groupVars, callerVars, iceptDone, cfgVars, histVars,
                   roundVars, loopPc, recvErr, loopRet, ingVars, dnsVars>>

LoopNext ==
    \/ LoopCheck
    \/ SessCancel
    \* Recv returned a snapshot
    \/ loopPc = "recv" /\ ~sessDone /\ InitSnapshot("w") /\ LoopStep("snap")
    \* Recv failed: cancelled context, EOF or another error
    \/ \E e \in RecvErrors : InitSnapshot("w") /\ RecvFailed(e)
    \/ \E fk \in Keys :
          loopPc = "snap" /\ OneStartPerIngest(fk) /\ Start("w", fk) /\ LoopStep(loopPc)
    \/ StartDefer("w") /\ LoopStep(loopPc)
    \/ StartClose("w") /\ LoopStep(loopPc)
    \/ \E fk \in Keys : GetOrCreateMountsDone("x", fk) /\ LoopStep(loopPc)
    \/ loopPc \in {"snap", "last"} /\ CancelUnwantedLock("w") /\ LoopStep(loopPc)
    \/ \E fk \in Keys : CancelUnwantedNext("w", fk) /\ LoopStep(loopPc)
    \/ CancelUnwantedWaitDone("w") /\ LoopStep(loopPc)
    \/ CancelUnwantedEnd("w") /\ LoopStep(IF loopPc = "last" THEN "returned" ELSE "top")
    \/ \E g \in Made : FwdStop(g) /\ LoopStep(loopPc)
    \/ \E g \in Made : FwdFail(g) /\ LoopStep(loopPc)
    \/ \E g \in Made : MntLock(g) /\ LoopStep(loopPc)
    \/ \E g \in Made : MntStop(g) /\ LoopStep(loopPc)
    \/ \E g \in Made : MntExit(g) /\ LoopStep(loopPc)
    \/ \E i \in Ingests : IceptCancel(i) /\ LoopStep(loopPc)

LoopSpec == Init /\ [][LoopNext]_vars

\* ---------------------------------------------------------------------------
\* session.Ingest: the ingests of a session and their mount points.

\* getCurrentAgent(name) is not nil.
HasCurrentAgent(w) == w \in currentAgents

\* validateAgentForIngest followed by getSingleContainerName's own test.
getSingleContainerName(w) ==
    IF agentCtr[w] = {} THEN [err |-> "Unimplemented", name |-> ""]
    ELSE IF Cardinality(agentCtr[w]) > 1 THEN [err |-> "NotFound", name |-> ""]
    ELSE [err |-> "", name |-> CHOOSE c \in agentCtr[w] : TRUE]

Loaded_Never(k) == FALSE

\* s.currentIngests.Load(ik) and the "loaded" result of LoadOrCompute.
Loaded(k) == k \in IngestKeys /\ currentIngests[k] # NoIngest

MountConflict_Never(mp, port) == FALSE

\* ensureNoMountConflict returns an AlreadyExists error.
MountConflict(mp, port) ==
    /\ ~(mp = "" /\ port = 0)
    /\ \E ic \in currentIntercepts :
          \/ mp # "" /\ ic.mp = mp
          \/ port # 0 /\ ic.port = port

Failed(e, ens) == [err |-> e, key |-> NoKey, ensured |-> ens, create |-> FALSE]

\* The result of Ingest(rq) in the current state: its error, the key of the
\* ingest it answers with, whether EnsureAgent was called and whether a new
\* ingest is stored and started.  ensureOk and translateOk are the outcomes
\* of the EnsureAgent call and of translateContainerEnv.
IngestResult(rq, ensureOk, translateOk) ==
    LET w == rq.workload
        has == HasCurrentAgent(w)
        r1 == IF has /\ rq.container = "" THEN getSingleContainerName(w)
              ELSE [err |-> "", name |-> rq.container]
        r2 == IF r1.name = "" THEN getSingleContainerName(w)
              ELSE IF r1.name \notin agentCtr[w]
                   THEN [err |-> "NoSuchContainer", name |-> ""]
                   ELSE r1
        k == <<w, r2.name>>
    IN  IF r1.err # "" THEN Failed(r1.err, FALSE)
        ELSE IF has /\ Loaded(<<w, r1.name>>)
             THEN [err |-> "", key |-> <<w, r1.name>>, ensured |-> FALSE, create |-> FALSE]
        ELSE IF MountConflict(rq.mp, rq.port) THEN Failed("AlreadyExists", FALSE)
        ELSE IF ~has /\ ~ensureOk THEN Failed("EnsureAgent", TRUE)
        ELSE IF agentCtr[w] = {} THEN Failed("Unimplemented", ~has)
        ELSE IF r2.err # "" THEN Failed(r2.err, ~has)
        ELSE IF ~translateOk THEN Failed("TranslateEnv", ~has)
        ELSE [err |-> "", key |-> k, ensured |-> ~has, create |-> ~Loaded(k)]

Ingest(rq, ensureOk, translateOk) ==
    LET r == IngestResult(rq, ensureOk, translateOk) IN
    /\ currentIngests' =
          IF r.create
          THEN [currentIngests EXCEPT ![r.key] = [mp |-> rq.mp, port |-> rq.port]]
          ELSE currentIngests
    /\ last' = [rq |-> rq, err |-> r.err,
                key |-> r.key,
                ensured |-> r.ensured, started |-> r.create]
    /\ UNCHANGED <<agentCtr, currentAgents, currentIntercepts>>

\* LeaveIngest: ig.cancel() deletes the ingest from currentIngests.
LeaveIngest(k) ==
    /\ Loaded(k)
    /\ currentIngests' = [currentIngests EXCEPT ![k] = NoIngest]
    /\ last' = NoCall
    /\ UNCHANGED <<agentCtr, currentAgents, currentIntercepts>>

\* handleAgentSnapshot stores the snapshot's agents.
setCurrentAgents(ws) ==
    /\ currentAgents # ws
    /\ currentAgents' = ws
    /\ last' = NoCall
    /\ UNCHANGED <<agentCtr, currentIngests, currentIntercepts>>

\* The traffic manager's agent of workload w has the containers cs; the
\* agent of "echo" keeps its one container.
AgentUpdate(w, cs) ==
    /\ w = "echo-env"
    /\ agentCtr[w] # cs
    /\ agentCtr' = [agentCtr EXCEPT ![w] = cs]
    /\ last' = NoCall
    /\ UNCHANGED <<currentAgents, currentIngests, currentIntercepts>>

\* The intercepts of the session become ics: intercepts are removed, and
\* created unless their mount point or port is in use by an ingest.
setCurrentIntercepts(ics) ==
    /\ currentIntercepts # ics
    /\ \A ic \in ics \ currentIntercepts, k \in IngestKeys :
          \/ currentIngests[k] = NoIngest
          \/ /\ ic.mp # currentIngests[k].mp
             /\ ~(ic.port # 0 /\ ic.port = currentIngests[k].port)
    /\ currentIntercepts' = ics
    /\ last' = NoCall
    /\ UNCHANGED <<agentCtr, currentAgents, currentIngests>>

IngRest == <<trackerVars, groupVars, callerVars, iceptDone, cfgVars, histVars,
             roundVars, loopVars, dnsVars>>

IngestNext ==
    \/ \E rq \in Requests, eo \in BOOLEAN, tr \in BOOLEAN :
          Ingest(rq, eo, tr) /\ UNCHANGED IngRest
    \/ \E k \in IngestKeys : LeaveIngest(k) /\ UNCHANGED IngRest
    \/ \E ws \in SUBSET Workloads : setCurrentAgents(ws) /\ UNCHANGED IngRest
    \/ \E w \in Workloads, cs \in AgentContainers : AgentUpdate(w, cs) /\ UNCHANGED IngRest
    \/ \E ics \in SUBSET InterceptRecs : setCurrentIntercepts(ics) /\ UNCHANGED IngRest

\* The tracker takes no step in this specification, so its configuration is
\* fixed.
IngestInit ==
    /\ Init
    /\ cfgPorts = [i \in Ingests |-> 0]
    /\ cfgMount = [i \in Ingests |-> TRUE]

IngestSpec == IngestInit /\ [][IngestNext]_vars

\* ---------------------------------------------------------------------------
\* Server.Worker: the managed-resolver attempt, then the override variant
\* (runOverridingServer) with its goroutines "Server", "NAT-redirect" and
\* "Local DNS", the firewall chain and the connection pool.

workerV == <<wk, inContainer, rdRet, workerErr>>
srvV == <<srv, serverStarted, serverDone, listeners>>
fwV == <<fwChain, fwRules, fwOutput, fwRun>>
ovV == <<poolAddrs, dropSuffixes, ovIn>>

\* The context of the group g is done: c is cancelled or a goroutine failed.
GCtxDone == dctx \/ gerr

\* The errors runOverridingServer returns: of the resolver file, of the
\* listeners, of the pool and of the group g.
OverrideErrors == {"resolv_read", "ns_invalid", "no_dns_ip", "listen", "pool", "group"}

\* runOverridingServer has been called.
OverrideStarted ==
    wk \in {"setup", "wait"} \/ listeners # "none" \/ workerErr \in OverrideErrors

Demotes_AnyError(err) == err # "nil"

\* err == errResolveDNotConfigured
Demotes(err) == err = "sentinel"

CtxLive_Always == TRUE

\* c.Err() == nil
CtxLive == ~dctx

ServerIsDone_Always == TRUE

\* <-serverDone can proceed.
ServerIsDone == serverDone

\* Worker is called; in a container it goes straight to runOverridingServer.
WorkerCall(ic) ==
    /\ wk = "idle"
    /\ inContainer' = ic
    /\ wk' = IF ic THEN "setup" ELSE "resolved"
    /\ UNCHANGED <<rdRet, workerErr, dctx, gerr, srvV, pool, nat, natI, ldns, fwV, cancelFirst, ovV>>

\* The context c is cancelled.
CtxCancel ==
    /\ ~dctx
    /\ wk # "returned"
    /\ dctx' = TRUE
    /\ cancelFirst' = ~serverStarted
    /\ UNCHANGED <<workerV, gerr, srvV, pool, nat, natI, ldns, fwV, ovV>>

\* tryResolveD returns nil, the sentinel or another error.
tryResolveD(res) ==
    /\ wk = "resolved"
    /\ rdRet' = [res |-> res, cancelled |-> dctx]
    /\ wk' = "decide"
    /\ UNCHANGED <<inContainer, workerErr, dctx, gerr, srvV, pool, nat, natI, ldns, fwV, cancelFirst, ovV>>

\* Worker looks at the error of tryResolveD and at c.Err().
WorkerDecide ==
    /\ wk = "decide"
    /\ IF Demotes(rdRet.res)
       THEN IF CtxLive
            THEN wk' = "setup" /\ UNCHANGED workerErr
            ELSE wk' = "returned" /\ workerErr' = "nil"
       ELSE /\ wk' = "returned"
            /\ workerErr' = IF rdRet.res = "nil" THEN "nil" ELSE "resolved_error"
    /\ UNCHANGED <<inContainer, rdRet, dctx, gerr, srvV, pool, nat, natI, ldns, fwV, cancelFirst, ovV>>

\* The characters of a search entry, the entries up to MaxLen characters and
\* the resolver files with a search list out of searches.
Chars == {".", "a", "A"}
Entries == UNION {[1..n -> Chars] : n \in 0..MaxLen}
ResolvFiles(searches) ==
    [read : BOOLEAN, ns : {"none", "invalid", "valid"}, search : searches]

\* strings.ToLower
ToLower(sp) == [i \in 1..Len(sp) |-> IF sp[i] = "A" THEN "a" ELSE sp[i]]

\* What the loop over rf.Search appends to s.dropSuffixes for the entry sp.
Normalize(sp) ==
    IF Len(sp) = 0 THEN <<>>
    ELSE LET sp1 == IF sp[1] = "." THEN Tail(sp) ELSE sp
         IN  IF Len(sp1) = 0 THEN <<>>
             ELSE LET sp2 == IF sp1[Len(sp1)] # "." THEN Append(sp1, ".") ELSE sp1
                  IN  <<ToLower(sp2)>>

RECURSIVE DropSuffixes(_)
DropSuffixes(search) ==
    IF search = <<>> THEN <<>>
    ELSE Normalize(Head(search)) \o DropSuffixes(Tail(search))

ConfigErr_Never(ipSet, rf) == "none"

\* The error of the first part of runOverridingServer, which settles
\* s.LocalIP: ipSet says that s.LocalIP is valid at the call.
ConfigErr(ipSet, rf) ==
    IF ipSet THEN "none"
    ELSE IF ~rf.read THEN "resolv_read"
    ELSE IF rf.ns = "invalid" THEN "ns_invalid"
    ELSE IF rf.ns = "none" THEN "no_dns_ip"
    ELSE "none"

\* runOverridingServer up to g.Wait(): the resolver file and LocalIP, the
\* listeners, the pool of n connections, then the goroutines.  out is the
\* later step that fails.
OvSetup(ipSet, rf, out, n) ==
    LET cerr == ConfigErr(ipSet, rf)
        err == IF cerr # "none" THEN cerr ELSE out
    IN
    /\ wk = "setup"
    /\ dropSuffixes' = IF ~ipSet /\ rf.read /\ rf.ns # "invalid"
                       THEN dropSuffixes \o DropSuffixes(rf.search)
                       ELSE dropSuffixes
    /\ ovIn' = [ipSet |-> ipSet, read |-> ~ipSet /\ rf.read,
                ns |-> IF ~ipSet /\ rf.read THEN rf.ns ELSE "none"]
    /\ wk' = IF err = "ok" THEN "wait" ELSE "returned"
    /\ workerErr' = IF err = "ok" THEN workerErr ELSE err
    /\ listeners' = IF err \in {"pool", "ok"} THEN "open" ELSE listeners
    /\ pool' = IF err = "ok" THEN "open" ELSE pool
    /\ poolAddrs' = IF err = "ok" THEN n ELSE poolAddrs
    /\ srv' = IF err = "ok" THEN "starting" ELSE srv
    /\ nat' = IF err = "ok" THEN "select" ELSE nat
    /\ ldns' = IF err = "ok" /\ inContainer THEN "select" ELSE ldns
    /\ UNCHANGED <<inContainer, rdRet, dctx, gerr, serverStarted, serverDone, natI, fwV,
                   cancelFirst>>

\* s.Run: the listeners accept and serverStarted is closed.
RunReady ==
    /\ srv = "starting"
    /\ srv' = "ready"
    /\ serverStarted' = TRUE
    /\ UNCHANGED <<workerV, dctx, gerr, serverDone, listeners, pool, nat, natI, ldns, fwV, cancelFirst, ovV>>

\* s.Run: a listener fails; Run returns the error.
RunFailed ==
    /\ srv = "starting"
    /\ srv' = "failed"
    /\ listeners' = "closed"
    /\ UNCHANGED <<workerV, dctx, gerr, serverStarted, serverDone, pool, nat, natI, ldns, fwV, cancelFirst, ovV>>

\* s.Run: the context is done, the serve loop drains.
RunStopping ==
    /\ srv = "ready"
    /\ GCtxDone
    /\ srv' = "stopping"
    /\ UNCHANGED <<workerV, dctx, gerr, serverStarted, serverDone, listeners, pool, nat, natI, ldns,
                   fwV, cancelFirst, ovV>>

\* s.Run: the serve loop has exited, the listeners are closed, Run returns.
RunStopped ==
    /\ srv = "stopping"
    /\ srv' = "stopped"
    /\ listeners' = "closed"
    /\ UNCHANGED <<workerV, dctx, gerr, serverStarted, serverDone, pool, nat, natI, ldns, fwV, cancelFirst, ovV>>

\* The "Server" goroutine returns what Run returned: its deferred
\* close(serverDone) runs, and an error cancels the group.
ServerExit ==
    /\ srv \in {"failed", "stopped"}
    /\ serverDone' = TRUE
    /\ gerr' = (gerr \/ srv = "failed")
    /\ srv' = "done"
    /\ UNCHANGED <<workerV, dctx, serverStarted, listeners, pool, nat, natI, ldns, fwV, cancelFirst, ovV>>

\* "Local DNS": the select and, after serverStarted, the listener on :53.
LocalDNS ==
    /\ ldns = "select"
    /\ GCtxDone \/ serverStarted
    /\ ldns' = "done"
    /\ UNCHANGED <<workerV, dctx, gerr, srvV, pool, nat, natI, fwV, cancelFirst, ovV>>

\* "NAT-redirect": the select takes <-c.Done().
NatSelectDone ==
    /\ nat = "select"
    /\ GCtxDone
    /\ nat' = "done"
    /\ UNCHANGED <<workerV, dctx, gerr, srvV, pool, natI, ldns, fwV, cancelFirst, ovV>>

\* "NAT-redirect": the select takes <-serverStarted.
NatSelectStarted ==
    /\ nat = "select"
    /\ serverStarted
    /\ nat' = "route"
    /\ natI' = 1
    /\ UNCHANGED <<workerV, dctx, gerr, srvV, pool, ldns, fwV, cancelFirst, ovV>>

\* The nat table as one value, and the number of jumps from OUTPUT to the
\* chain.
Fw == [chain |-> fwChain, rules |-> fwRules, output |-> fwOutput]
JumpsIn(output) == Cardinality({i \in 1..Len(output) : output[i] = "jump"})
Jumps == JumpsIn(fwOutput)

\* An iptables command: its operation and, for -A, the rule.
Cmd(op) == [op |-> op, rule |-> <<>>]
Append_(rule) == [op |-> "A", rule |-> rule]

\* What "iptables -t nat" does with the command cmd in the table f: -N fails
\* on an existing chain, -A, -F and -I on a missing one, -D without a jump,
\* -X on a chain that is missing, not empty or referenced from OUTPUT.
Iptables(cmd, f) ==
    LET failed == [ok |-> FALSE, fw |-> f]
        done(g) == [ok |-> TRUE, fw |-> g]
    IN  CASE cmd.op = "N" ->
               IF f.chain THEN failed ELSE done([f EXCEPT !.chain = TRUE, !.rules = <<>>])
          [] cmd.op = "A" ->
               IF ~f.chain THEN failed ELSE done([f EXCEPT !.rules = Append(@, cmd.rule)])
          [] cmd.op = "I" ->
               IF ~f.chain THEN failed ELSE done([f EXCEPT !.output = <<"jump">> \o @])
          [] cmd.op = "D" ->
               IF JumpsIn(f.output) = 0 THEN failed
               ELSE LET i == CHOOSE i \in 1..Len(f.output) :
                                 /\ f.output[i] = "jump"
                                 /\ \A j \in 1..(i - 1) : f.output[j] # "jump"
                    IN  done([f EXCEPT !.output = SubSeq(@, 1, i - 1) \o SubSeq(@, i + 1, Len(@))])
          [] cmd.op = "F" ->
               IF ~f.chain THEN failed ELSE done([f EXCEPT !.rules = <<>>])
          [] cmd.op = "X" ->
               IF ~f.chain \/ f.rules # <<>> \/ JumpsIn(f.output) > 0 THEN failed
               ELSE done([f EXCEPT !.chain = FALSE])

\* runNatTableCmd: the command runs, or fails for a reason of its own (x is
\* false: a cancelled context, the xtables lock, a missing privilege).
runNatTableCmd(cmd, x) == IF x THEN Iptables(cmd, Fw) ELSE [ok |-> FALSE, fw |-> Fw]

unrouteDNS_NoDelete == <<Cmd("F"), Cmd("X"), Cmd("X")>>

\* unrouteDNS: -D OUTPUT -j chain, -F chain, -X chain.
unrouteDNS == <<Cmd("D"), Cmd("F"), Cmd("X")>>

\* The rules routeDNS appends for n local addresses: one RETURN per address,
\* then the DNAT rule.
ChainRules(n) == [i \in 1..(n + 1) |-> IF i <= n THEN <<"RETURN", i>> ELSE <<"DNAT", 0>>]

routeDNS_JumpFirst(n) ==
    unrouteDNS \o <<Cmd("N"), Cmd("I")>> \o [i \in 1..(n + 1) |-> Append_(ChainRules(n)[i])]

\* routeDNS: unrouteDNS, -N chain, -A chain for every rule, -I OUTPUT 1.
routeDNS(n) ==
    unrouteDNS \o <<Cmd("N")>> \o [i \in 1..(n + 1) |-> Append_(ChainRules(n)[i])]
               \o <<Cmd("I")>>

\* The table after the commands cmds, errors ignored.
RECURSIVE RunAll(_, _)
RunAll(cmds, f) ==
    IF cmds = <<>> THEN f ELSE RunAll(Tail(cmds), Iptables(Head(cmds), f).fw)

\* The table becomes f and a command has been run.
SetFw(f) ==
    /\ fwChain' = f.chain
    /\ fwRules' = f.rules
    /\ fwOutput' = f.output
    /\ fwRun' = TRUE

\* routeDNS begins with unrouteDNS, whose errors are ignored.
RouteClean(x) ==
    /\ nat = "route"
    /\ natI <= Len(unrouteDNS)
    /\ SetFw(runNatTableCmd(routeDNS(poolAddrs)[natI], x).fw)
    /\ natI' = natI + 1
    /\ UNCHANGED <<workerV, dctx, gerr, srvV, pool, nat, ldns, cancelFirst, ovV>>

\* routeDNS: -N of the chain, -A of its rules, -I OUTPUT.  A command that
\* fails ends routeDNS and the goroutine with the error.
RouteCmd(x) ==
    LET cmds == routeDNS(poolAddrs)
        r == runNatTableCmd(cmds[natI], x)
    IN
    /\ nat = "route"
    /\ natI > Len(unrouteDNS)
    /\ SetFw(r.fw)
    /\ nat' = IF ~r.ok THEN "done" ELSE IF natI = Len(cmds) THEN "serving" ELSE nat
    /\ natI' = IF r.ok /\ natI < Len(cmds) THEN natI + 1 ELSE 0
    /\ gerr' = (gerr \/ ~r.ok)
    /\ UNCHANGED <<workerV, dctx, srvV, pool, ldns, cancelFirst, ovV>>

\* "NAT-redirect" stays alive until the DNS server is done.
NatServerDone ==
    /\ nat = "serving"
    /\ ServerIsDone
    /\ nat' = "unroute"
    /\ natI' = 1
    /\ UNCHANGED <<workerV, dctx, gerr, srvV, pool, ldns, fwV, cancelFirst, ovV>>

\* The deferred function of "NAT-redirect": unrouteDNS, then flushDNS.
NatUnroute(x) ==
    /\ nat = "unroute"
    /\ SetFw(runNatTableCmd(unrouteDNS[natI], x).fw)
    /\ nat' = IF natI = Len(unrouteDNS) THEN "flush" ELSE nat
    /\ natI' = IF natI = Len(unrouteDNS) THEN 0 ELSE natI + 1
    /\ UNCHANGED <<workerV, dctx, gerr, srvV, pool, ldns, cancelFirst, ovV>>

NatFlush ==
    /\ nat = "flush"
    /\ nat' = "done"
    /\ UNCHANGED <<workerV, dctx, gerr, srvV, pool, natI, ldns, fwV, cancelFirst, ovV>>

GroupDone_Early == TRUE

\* g.Wait() can return: every goroutine of g has returned.
GroupDone == srv = "done" /\ nat = "done" /\ ldns \in {"none", "done"}

\* g.Wait() returns, the deferred pool.Close() runs, Worker returns.
OvReturn ==
    /\ wk = "wait"
    /\ GroupDone
    /\ pool' = "closed"
    /\ wk' = "returned"
    /\ workerErr' = IF gerr THEN "group" ELSE "nil"
    /\ UNCHANGED <<inContainer, rdRet, dctx, gerr, srvV, nat, natI, ldns, fwV, cancelFirst, ovV>>

\* Worker is called again, for a new connection with a new Server: the nat
\* table is what the run before left.
Restart ==
    /\ wk = "returned"
    /\ wk' = "idle"
    /\ inContainer' = FALSE
    /\ rdRet' = [res |-> "none", cancelled |-> FALSE]
    /\ workerErr' = "none"
    /\ dctx' = FALSE
    /\ gerr' = FALSE
    /\ srv' = "none"
    /\ serverStarted' = FALSE
    /\ serverDone' = FALSE
    /\ listeners' = "none"
    /\ pool' = "none"
    /\ nat' = "none"
    /\ natI' = 0
    /\ ldns' = "none"
    /\ fwRun' = FALSE
    /\ cancelFirst' = FALSE
    /\ poolAddrs' = 0
    /\ dropSuffixes' = <<>>
    /\ ovIn' = [ipSet |-> TRUE, read |-> FALSE, ns |-> "none"]
    /\ UNCHANGED <<fwChain, fwRules, fwOutput>>

DnsRest == <<trackerVars, groupVars, callerVars, iceptDone, cfgVars, histVars,
             roundVars, loopVars, ingVars, cacheVars, lateVars>>

DnsNext ==
    \/ \E ic \in BOOLEAN : WorkerCall(ic) /\ UNCHANGED DnsRest
    \/ CtxCancel /\ UNCHANGED DnsRest
    \/ \E res \in {"nil", "sentinel", "error"} : tryResolveD(res) /\ UNCHANGED DnsRest
    \/ WorkerDecide /\ UNCHANGED DnsRest
    \/ \E ipSet \in BOOLEAN, rf \in ResolvFiles({<<>>, << <<"A">> >>}),
          out \in {"listen", "pool", "ok"}, n \in 1..MaxAddrs :
          OvSetup(ipSet, rf, out, n) /\ UNCHANGED DnsRest
    \/ RunReady /\ UNCHANGED DnsRest
    \/ RunFailed /\ UNCHANGED DnsRest
    \/ RunStopping /\ UNCHANGED DnsRest
    \/ RunStopped /\ UNCHANGED DnsRest
    \/ ServerExit /\ UNCHANGED DnsRest
    \/ LocalDNS /\ UNCHANGED DnsRest
    \/ NatSelectDone /\ UNCHANGED DnsRest
    \/ NatSelectStarted /\ UNCHANGED DnsRest
    \/ \E x \in BOOLEAN : RouteClean(x) /\ UNCHANGED DnsRest
    \/ \E x \in BOOLEAN : RouteCmd(x) /\ UNCHANGED DnsRest
    \/ NatServerDone /\ UNCHANGED DnsRest
    \/ \E x \in BOOLEAN : NatUnroute(x) /\ UNCHANGED DnsRest
    \/ NatFlush /\ UNCHANGED DnsRest
    \/ OvReturn /\ UNCHANGED DnsRest
    \/ Restart /\ UNCHANGED DnsRest

DnsSpec == IngestInit /\ [][DnsNext]_vars

\* ---------------------------------------------------------------------------
\* The DNS cache of the server that s.Run serves queries from.

InFlight_Never(k) == FALSE

\* The key k has a call to the cluster or upstream resolver outstanding.
InFlight(k) == cacheEntry[k].state = "inflight"

\* The query q for the key k arrives: it is answered from the cache, attaches
\* to the call in flight, or starts the call for the key.
CacheQuery(q, k) ==
    /\ cacheWait[q] = "none"
    /\ cacheAns[q] = "none"
    /\ IF cacheEntry[k].state = "cached"
       THEN /\ cacheAns' = [cacheAns EXCEPT ![q] = cacheEntry[k].val]
            /\ UNCHANGED <<cacheEntry, cacheCalls, cacheWait>>
       ELSE /\ cacheWait' = [cacheWait EXCEPT ![q] = k]
            /\ IF InFlight(k)
               THEN UNCHANGED <<cacheEntry, cacheCalls>>
               ELSE /\ cacheEntry' = [cacheEntry EXCEPT ![k] = [state |-> "inflight", val |-> "none"]]
                    /\ cacheCalls' = [cacheCalls EXCEPT ![k] = @ + 1]
            /\ UNCHANGED cacheAns

\* A call for the key k returns r: the entry is stored and every query
\* attached to the key receives r.
CacheCallDone(k, r) ==
    /\ cacheCalls[k] > 0
    /\ cacheCalls' = [cacheCalls EXCEPT ![k] = @ - 1]
    /\ cacheEntry' = [cacheEntry EXCEPT ![k] = [state |-> "cached", val |-> r]]
    /\ cacheAns' = [q \in Queries |-> IF cacheWait[q] = k THEN r ELSE cacheAns[q]]
    /\ cacheWait' = [q \in Queries |-> IF cacheWait[q] = k THEN "none" ELSE cacheWait[q]]

\* The entry of the key k reaches its expiry.
CacheExpire(k) ==
    /\ cacheEntry[k].state = "cached"
    /\ cacheEntry' = [cacheEntry EXCEPT ![k] = NoEntry]
    /\ UNCHANGED <<cacheCalls, cacheWait, cacheAns>>

\* The answer of the query q was written to the client.
CacheReply(q) ==
    /\ cacheAns[q] # "none"
    /\ cacheAns' = [cacheAns EXCEPT ![q] = "none"]
    /\ UNCHANGED <<cacheEntry, cacheCalls, cacheWait>>

CacheRest == <<trackerVars, groupVars, callerVars, iceptDone, cfgVars, histVars,
               roundVars, loopVars, ingVars, dnsOwn, lateVars>>

CacheNext ==
    \/ \E q \in Queries, k \in CacheKeys : CacheQuery(q, k) /\ UNCHANGED CacheRest
    \/ \E k \in CacheKeys, r \in Answers : CacheCallDone(k, r) /\ UNCHANGED CacheRest
    \/ \E k \in CacheKeys : CacheExpire(k) /\ UNCHANGED CacheRest
    \/ \E q \in Queries : CacheReply(q) /\ UNCHANGED CacheRest

CacheSpec == IngestInit /\ [][CacheNext]_vars

\* ---------------------------------------------------------------------------
\* The connection pool that runOverridingServer creates with NewConnPool.

\* The sockets handed out and not yet released.
Acquired == {c \in PoolCallers : connPool.st[c] = "holding"}

PoolFull_Never == FALSE

\* All the sockets of the pool are handed out.
PoolFull == Cardinality(Acquired) >= PoolCap

CloseWakes_None(st) == st

\* What close does to a caller: one blocked in acquire fails.
CloseWakes(st) == IF st = "blocked" THEN "failed" ELSE st

\* acquire by the caller c: fails on a closed pool, takes a socket when one is
\* free, waits otherwise.
PoolAcquire(c) ==
    /\ connPool.st[c] = "idle"
    /\ connPool' = [connPool EXCEPT !.st[c] =
                       IF ~connPool.open THEN "failed"
                       ELSE IF PoolFull THEN "blocked" ELSE "holding"]

\* The callers waiting in acquire.
Waiting == {c \in PoolCallers : connPool.st[c] = "blocked"}

\* release by the caller c: the socket goes to a waiting acquire if there is
\* one and to the idle set otherwise.
PoolRelease(c, w) ==
    /\ connPool.st[c] = "holding"
    /\ IF Waiting = {} THEN w = c ELSE w \in Waiting
    /\ connPool' = [connPool EXCEPT !.st = [d \in PoolCallers |->
                       IF d = w /\ d # c THEN "holding"
                       ELSE IF d = c THEN "idle" ELSE connPool.st[d]]]

\* The caller c whose acquire failed gives up.
PoolGiveUp(c) ==
    /\ connPool.st[c] = "failed"
    /\ connPool' = [connPool EXCEPT !.st[c] = "idle"]

\* pool.Close()
PoolClose ==
    /\ connPool.open
    /\ connPool' = [open |-> FALSE, st |-> [c \in PoolCallers |-> CloseWakes(connPool.st[c])]]

PoolNext ==
    \/ \E c \in PoolCallers : PoolAcquire(c) /\ UNCHANGED PoolRest
    \/ \E c \in PoolCallers, w \in PoolCallers : PoolRelease(c, w) /\ UNCHANGED PoolRest
    \/ \E c \in PoolCallers : PoolGiveUp(c) /\ UNCHANGED PoolRest
    \/ PoolClose /\ UNCHANGED PoolRest

PoolSpec == IngestInit /\ [][PoolNext]_vars

\* ---------------------------------------------------------------------------
\* vip.TranslateEnvironmentIPs with the provider of its test.

\* The number of digits of s from position i on, up to 4.
RECURSIVE DigitRun(_, _, _)
DigitRun(s, i, n) ==
    IF n < 4 /\ i + n <= Len(s) /\ s[i + n] \in EnvDigits THEN DigitRun(s, i, n + 1) ELSE n

\* \d{1,3}\. at position i: the position of the dot, or 0.
OctetDot(s, i) ==
    IF i = 0 THEN 0
    ELSE LET n == DigitRun(s, i, 0)
         IN  IF n \in 1..3 /\ i + n <= Len(s) /\ s[i + n] = "." THEN i + n ELSE 0

\* ipV4Rx, (?:\d{1,3}\.){3}\d{1,3}, at position i: the last position of the
\* match, or 0.
MatchEnd(s, i) ==
    LET d1 == OctetDot(s, i)
        d2 == IF d1 = 0 THEN 0 ELSE OctetDot(s, d1 + 1)
        d3 == IF d2 = 0 THEN 0 ELSE OctetDot(s, d2 + 1)
        n == IF d3 = 0 THEN 0 ELSE DigitRun(s, d3 + 1, 0)
    IN  IF n = 0 THEN 0 ELSE d3 + (IF n > 3 THEN 3 ELSE n)

\* The fields of t between its dots.
RECURSIVE Fields(_)
Fields(t) ==
    IF \A i \in 1..Len(t) : t[i] # "." THEN <<t>>
    ELSE LET d == CHOOSE i \in 1..Len(t) : t[i] = "." /\ \A j \in 1..(i - 1) : t[j] # "."
         IN  <<SubSeq(t, 1, d - 1)>> \o Fields(SubSeq(t, d + 1, Len(t)))

\* netip.ParseAddr(t) succeeds for dotted decimal text: four fields of one to
\* three digits, none with a leading zero.
ParseAddr(t) ==
    LET f == Fields(t)
    IN  /\ Len(f) = 4
        /\ \A i \in 1..4 :
              /\ Len(f[i]) \in 1..3
              /\ \A j \in 1..Len(f[i]) : f[i][j] \in EnvDigits
              /\ Len(f[i]) > 1 => f[i][1] # "0"

\* The n-th address of the generator of local addresses.
LocalIPs == << <<"0", ".", "0", ".", "0", ".", "1">>,
               <<"0", ".", "0", ".", "1", ".", "0">>,
               <<"0", ".", "0", ".", "1", ".", "1">> >>

\* p.Contains(remoteIP) for the prefix of the provider, 1.0.0.0/8.
InCidr(ip) == Fields(ip)[1] = <<"1">>

\* localIPProviderTest.GetLocalIP with the remote addresses mapped so far, in
\* the order they were mapped: the local address and the new list.
GetLocalIP(mapped, ip) ==
    IF \E n \in 1..Len(mapped) : mapped[n] = ip
    THEN [ip |-> LocalIPs[CHOOSE n \in 1..Len(mapped) : mapped[n] = ip], ok |-> TRUE, mapped |-> mapped]
    ELSE IF InCidr(ip)
         THEN IF Len(mapped) < Len(LocalIPs)
              THEN [ip |-> LocalIPs[Len(mapped) + 1], ok |-> TRUE, mapped |-> Append(mapped, ip)]
              ELSE [ip |-> ip, ok |-> FALSE, mapped |-> mapped]
         ELSE [ip |-> ip, ok |-> TRUE, mapped |-> mapped]

\* The function replaceIP hands to ReplaceAllStringFunc.
ReplaceMatch(mapped, m) ==
    IF ParseAddr(m)
    THEN LET r == GetLocalIP(mapped, m)
         IN  [s |-> IF r.ok THEN r.ip ELSE m, mapped |-> r.mapped]
    ELSE [s |-> m, mapped |-> mapped]

\* replaceIP with ipV4Rx from position i on: the leftmost match, its
\* replacement, and on after the match.
RECURSIVE replaceIP(_, _, _)
replaceIP(mapped, s, i) ==
    IF i > Len(s) THEN [s |-> <<>>, mapped |-> mapped]
    ELSE LET e == MatchEnd(s, i)
         IN  IF e = 0
             THEN LET rest == replaceIP(mapped, s, i + 1)
                  IN  [s |-> <<s[i]>> \o rest.s, mapped |-> rest.mapped]
             ELSE LET r == ReplaceMatch(mapped, SubSeq(s, i, e))
                      rest == replaceIP(r.mapped, s, e + 1)
                  IN  [s |-> r.s \o rest.s, mapped |-> rest.mapped]

\* TranslateEnvironmentIPs: the keys in sorted order, the IPv4 pass when the
\* provider maps IPv4.  No value has a colon, so ipV6Rx matches nowhere.
TranslateEnvironmentIPs(env, v4) ==
    IF ~v4 THEN env
    ELSE LET r1 == replaceIP(<<>>, env["k1"], 1)
             r2 == replaceIP(r1.mapped, env["k2"], 1)
         IN  [k \in DOMAIN env |-> IF k = "k1" THEN r1.s ELSE r2.s]

\* A call of TranslateEnvironmentIPs.
Translate(e1, e2, v4) ==
    /\ ~envT.called
    /\ LET env == [k \in EnvKeys |-> IF k = "k1" THEN e1 ELSE e2]
       IN  envT' = [called |-> TRUE, v4 |-> v4, env |-> env,
                    out |-> TranslateEnvironmentIPs(env, v4)]

EnvNext ==
    /\ ~envT.called
    /\ \E e1 \in EnvFirst, e2 \in EnvStrings, v4 \in BOOLEAN :
          Translate(e1, e2, v4) /\ UNCHANGED EnvRest

EnvSpec == IngestInit /\ [][EnvNext]_vars

\* ---------------------------------------------------------------------------
\* flags.ConsumeUnparsedValue.

\* strings.HasPrefix(s, pfx)
HasPrefix(s, pfx) == Len(s) >= Len(pfx) /\ SubSeq(s, 1, Len(pfx)) = pfx

\* strings.IndexByte(s, c), counted from 1; 0 when c is not in s.
IndexByte(s, c) ==
    IF \E i \in 1..Len(s) : s[i] = c THEN CHOOSE i \in 1..Len(s) : s[i] = c /\ \A j \in 1..(i - 1) : s[j] # c
    ELSE 0

\* strings.Cut(s, "=")
Cut(s) ==
    LET i == IndexByte(s, "=")
    IN  IF i = 0 THEN [flag |-> s, val |-> <<>>, found |-> FALSE]
        ELSE [flag |-> SubSeq(s, 1, i - 1), val |-> SubSeq(s, i + 1, Len(s)), found |-> TRUE]

\* slices.Delete(args, i, j), positions counted from 1, j exclusive.
Delete(args, i, j) == SubSeq(args, 1, i - 1) \o SubSeq(args, j, Len(args))

\* strings.Replace(flag, c, "", 1)
RemoveFirst(flag, c) ==
    LET i == IndexByte(flag, c)
    IN  IF i = 0 THEN flag ELSE SubSeq(flag, 1, i - 1) \o SubSeq(flag, i + 1, Len(flag))

\* len(s) >= 2 && s[0] == '-' && s[1] != '-' && strings.IndexByte(s, shortForm) > 0
ShortMatch(s, short) ==
    Len(s) >= 2 /\ s[1] = "-" /\ s[2] # "-" /\ IndexByte(s, short) > 1

\* ixf: the argument s is the flag looked for.
Ixf(long, short, s) ==
    \/ long # <<>> /\ (s = <<"-", "-">> \o long \/ HasPrefix(s, <<"-", "-">> \o long \o <<"=">>))
    \/ short # "" /\ ShortMatch(s, short)

\* ConsumeUnparsedValue: the value, found, the args returned and the error, or
\* the panic of the runtime.
ConsumeUnparsedValue(long, short, isBool, args) ==
    LET none == [val |-> <<>>, found |-> FALSE, out |-> args, err |-> FALSE, panic |-> FALSE]
        fail == [val |-> <<>>, found |-> FALSE, out |-> args, err |-> TRUE, panic |-> FALSE]
        some(v, o) == [val |-> v, found |-> TRUE, out |-> o, err |-> FALSE, panic |-> FALSE]
        \* flag[1] with len(flag) == 1: index out of range
        panic == [val |-> <<>>, found |-> FALSE, out |-> args, err |-> FALSE, panic |-> TRUE]
        true == <<"t", "r", "u", "e">>
    IN
    IF long = <<>> /\ short = "" THEN none
    ELSE IF \A i \in 1..Len(args) : ~Ixf(long, short, args[i]) THEN none
    ELSE
    LET fi == CHOOSE i \in 1..Len(args) :
                  Ixf(long, short, args[i]) /\ \A j \in 1..(i - 1) : ~Ixf(long, short, args[j])
        c == Cut(args[fi])
        flag == c.flag
        fl == Len(flag)
        next == fi + 1 <= Len(args) /\ ~HasPrefix(args[fi + 1], <<"-">>)
        set(a) == [args EXCEPT ![fi] = a]
    IN
    IF fl < 2 THEN panic
    ELSE IF flag[2] = "-" \/ fl = 2
    THEN IF c.found THEN (IF isBool /\ c.val = <<>> THEN fail ELSE some(c.val, Delete(args, fi, fi + 1)))
         ELSE IF isBool THEN some(true, Delete(args, fi, fi + 1))
         ELSE IF next THEN some(args[fi + 1], Delete(args, fi, fi + 2))
         ELSE fail
    ELSE IF flag[fl] = short
    THEN LET f1 == SubSeq(flag, 1, fl - 1)
         IN  IF c.found THEN some(c.val, set(f1))
             ELSE IF isBool THEN some(true, set(f1))
             ELSE IF next THEN some(args[fi + 1], Delete(set(f1), fi + 1, fi + 2))
             ELSE fail
    ELSE IF ~isBool THEN fail
    ELSE LET f2 == RemoveFirst(flag, short)
         IN  some(true, set(IF c.found THEN f2 \o <<"=">> \o c.val ELSE f2))

\* A call of ConsumeUnparsedValue.
Consume(long, short, isBool, args) ==
    /\ ~flagT.called
    /\ LET r == ConsumeUnparsedValue(long, short, isBool, args)
       IN  flagT' = [called |-> TRUE, long |-> long, short |-> short, isBool |-> isBool,
                     args |-> args, val |-> r.val, found |-> r.found, out |-> r.out,
                     err |-> r.err, panic |-> r.panic]

FlagNext ==
    /\ ~flagT.called
    /\ \E long \in {<<>>, <<"n">>}, short \in {"", "z"}, isBool \in BOOLEAN,
          b \in ArgsBefore, a \in ArgStrings, c \in ArgsAfter :
          Consume(long, short, isBool, b \o <<a>> \o c) /\ UNCHANGED FlagRest

FlagSpec == IngestInit /\ [][FlagNext]_vars

\* ---------------------------------------------------------------------------
\* remotefs.ftpMounter.

\* The addresses of the pods whose FTP server a Start call is given.
FtpAddrs == {"10.0.0.5:21", "10.0.0.6:21"}

NeedsMount_Always == TRUE

\* m.id == nil
NeedsMount == ~ftpM.id

\* ftpMounter.Start with the address addr; ok says whether the call to the
\* fuseftp client, Mount or SetFtpServer, succeeds.  A call with a cancelled
\* context fails.
FtpStart(addr, ok) ==
    /\ ftpM.starts < MaxStarts
    /\ ftpM.ctxDone => ~ok
    /\ IF NeedsMount
       THEN IF ok
            THEN ftpM' = [ftpM EXCEPT !.id = TRUE, !.mounts = @ + 1, !.addr = addr,
                                      !.gor = "waiting", !.starts = @ + 1, !.last = "mounted"]
            ELSE ftpM' = [ftpM EXCEPT !.starts = @ + 1, !.last = "mount_error"]
       ELSE IF ok
            THEN ftpM' = [ftpM EXCEPT !.addr = addr, !.starts = @ + 1, !.last = "switched"]
            ELSE ftpM' = [ftpM EXCEPT !.starts = @ + 1, !.last = "switch_error"]

\* pa.ctx, the context of the ingest that Start is called with, is cancelled.
FtpCtxCancel ==
    /\ ~ftpM.ctxDone
    /\ ftpM' = [ftpM EXCEPT !.ctxDone = TRUE]

\* The goroutine of Start: <-ctx.Done(), then m.client.Unmount(ctx, m.id).
FtpUnmount ==
    /\ ftpM.gor = "waiting"
    /\ ftpM.ctxDone
    /\ ftpM' = [ftpM EXCEPT !.gor = "done", !.unmounts = @ + 1]

FtpNext ==
    \/ \E addr \in FtpAddrs, ok \in BOOLEAN : FtpStart(addr, ok) /\ UNCHANGED FtpRest
    \/ FtpCtxCancel /\ UNCHANGED FtpRest
    \/ FtpUnmount /\ UNCHANGED FtpRest

FtpSpec == IngestInit /\ [][FtpNext]_vars

\* ---------------------------------------------------------------------------
\* teleproxy: the workers of intercept mode under their supervisor.

TranslatorWorker == "NAT"
ProxyWorker == "PXY"
APIWorker == "API"
DNSServerWorker == "DNS"
DNSConfigWorker == "CFG"
CheckReadyWorker == "RDY"

Workers == {TranslatorWorker, APIWorker, DNSServerWorker, ProxyWorker, DNSConfigWorker,
            CheckReadyWorker}

Requires_None(w) == {}

\* The Requires field of the supervisor.Worker named w.
Requires(w) ==
    CASE w = TranslatorWorker -> {ProxyWorker, DNSServerWorker}
      [] w = APIWorker -> {}
      [] w = DNSServerWorker -> {}
      [] w = ProxyWorker -> {}
      [] w = DNSConfigWorker -> {TranslatorWorker}
      [] w = CheckReadyWorker -> {TranslatorWorker, APIWorker, DNSServerWorker, ProxyWorker,
                                  DNSConfigWorker}

\* The workers that have called p.Ready().
ReadyWorkers == {w \in Workers : tp.st[w] \in {"ready", "exited"}}

\* The supervisor starts the Work of a worker once every worker it requires
\* is ready, and starts none while it shuts down.
TpLaunch(w) ==
    /\ tp.st[w] = "waiting"
    /\ ~tp.shutdown
    /\ Requires(w) \subseteq ReadyWorkers
    /\ tp' = [tp EXCEPT !.st[w] = "running"]

\* Whether the Work of w can return an error before p.Ready(): srv.Start,
\* proxy.NewProxy, iceptor.Work and selfcheck can, apis.Start and the
\* DNS configuration cannot.
CanFail(w) == w \in {DNSServerWorker, ProxyWorker, TranslatorWorker, CheckReadyWorker}

\* The Work of w up to p.Ready(), or up to the error it returns; the error of
\* a worker shuts the supervisor down.  noCheck is args.NoCheck.
TpWork(w, ok, noCheck) ==
    /\ tp.st[w] = "running"
    /\ ok \/ CanFail(w)
    /\ LET passed == ok \/ (w = CheckReadyWorker /\ noCheck)
       IN tp' = [tp EXCEPT !.st[w] = IF passed THEN "ready" ELSE "failed",
                           !.shutdown = @ \/ ~passed,
                           !.redirect = @ \/ w = DNSConfigWorker,
                           !.check = IF w = CheckReadyWorker
                                     THEN (IF ok THEN "passed" ELSE "failed")
                                     ELSE @]

\* A signal or the end of the parent stops the supervisor.
TpShutdown ==
    /\ ~tp.shutdown
    /\ tp' = [tp EXCEPT !.shutdown = TRUE]

\* <-p.Shutdown() in the Work of a ready worker returns.
TpExit(w) ==
    /\ tp.shutdown
    /\ tp.st[w] = "ready"
    /\ tp' = [tp EXCEPT !.st[w] = "exited"]

TpNext ==
    \/ \E w \in Workers : TpLaunch(w) /\ UNCHANGED TpRest
    \/ \E w \in Workers, ok \in BOOLEAN, noCheck \in BOOLEAN :
          TpWork(w, ok, noCheck) /\ UNCHANGED TpRest
    \/ TpShutdown /\ UNCHANGED TpRest
    \/ \E w \in Workers : TpExit(w) /\ UNCHANGED TpRest

TpSpec == IngestInit /\ [][TpNext]_vars

\* ---------------------------------------------------------------------------
\* Router.UpdateRoutes.

\* The subnets a caller may ask to proxy; the last one is an IPv4 subnet of
\* more than 30 bits.
Subnets == {"10.0.0.0/8", "10.96.0.0/12", "10.0.0.1/32"}
PleaseProxy == UNION {[1..n -> Subnets] : n \in 0..MaxRoutes}

\* sn.Addr().Is4() && bits > 30
IsStaticNet(sn) == sn = "10.0.0.1/32"

Contains(list, sn) == \E i \in DOMAIN list : list[i] = sn

\* subnet.Partition with the filter of UpdateRoutes: the routed subnets that
\* are requested, and the rest, both in their order.
Partition(routed, pleaseProxy) ==
    [matched |-> SelectSeq(routed, LAMBDA sn : Contains(pleaseProxy, sn)),
     rest |-> SelectSeq(routed, LAMBDA sn : ~Contains(pleaseProxy, sn))]

Added_All(pleaseProxy, routed) == pleaseProxy

\* slices.DeleteFunc(pleaseProxy, ...): the requested subnets that are not
\* routed, in their order.
Added(pleaseProxy, routed) == SelectSeq(pleaseProxy, LAMBDA sn : ~Contains(routed, sn))

\* UpdateRoutes with the list pleaseProxy; AddSubnet fails for the subnet
\* fail.  A failed AddSubnet is logged and the subnet stays in routedSubnets.
UpdateRoutes(pleaseProxy, fail) ==
    LET part == Partition(rtr.routedSubnets, pleaseProxy)
        added == Added(pleaseProxy, part.matched)
    IN rtr' = [routedSubnets |-> part.matched \o added,
               called |-> IF rtr.called < 2 THEN rtr.called + 1 ELSE 2,
               pleaseProxy |-> pleaseProxy,
               prevProxy |-> rtr.pleaseProxy,
               prevRouted |-> rtr.routedSubnets,
               removed |-> part.rest,
               added |-> SelectSeq(added, LAMBDA sn : ~IsStaticNet(sn)),
               device |-> (rtr.device \ {part.rest[i] : i \in DOMAIN part.rest})
                             \cup ({added[i] : i \in DOMAIN added} \ {fail, "10.0.0.1/32"})]

RtrNext ==
    \E pleaseProxy \in PleaseProxy, fail \in Subnets :
        UpdateRoutes(pleaseProxy, fail) /\ UNCHANGED RtrRest

RtrSpec == IngestInit /\ [][RtrNext]_vars

\* The search lists of a resolver file: up to two entries out of Entries.
SearchLists ==
    {<<>>} \cup {<<e>> : e \in Entries} \cup {<<e, f>> : e, f \in Entries}

\* One call of runOverridingServer in a container whose resolver file has any
\* search list, on a host where the DNS port cannot be bound: every call ends in
\* s.dnsListeners at the latest, after s.dropSuffixes was computed.
SearchNext ==
    \/ WorkerCall(TRUE) /\ UNCHANGED DnsRest
    \/ \E rf \in ResolvFiles(SearchLists) :
          OvSetup(FALSE, rf, "listen", 1) /\ UNCHANGED DnsRest

SearchSpec == IngestInit /\ [][SearchNext]_vars



\* ------------------------------------------------------------- claims
\* C1: every key has at most one live forward/mount group: no two groups made
\* for the same key have goroutines running at the same time.
C1_OneLiveGroupPerKey ==
    \A g \in Made, h \in Made :
        (g # h /\ grpKey[g] = grpKey[h]) => ~(Live(g) /\ Live(h))

\* C2: once privateDelete has returned for a group that cancelUnwanted cancelled
\* (nobody waits for it any more), every goroutine started for that group has
\* returned.
C2_CancelledWorkersExited ==
    \A g \in Made :
        (ctxDone[g] /\ \A c \in Callers : ~(pc[c] = "cu_wait" /\ cur[c] = g)) => ~Live(g)

\* C3: cancelUnwanted always terminates: whenever it waits for the workers of a
\* group it cancelled, the wait ends.
C3_CancelTerminates ==
    (pc["w"] = "cu_wait") ~> (pc["w"] # "cu_wait" \/ panicked)

\* C4: when a round has ended (cancelUnwanted returned, no new round begun), the
\* keys of alivePods are among the keys of snapshot, every key passed to start in
\* the round that needed workers is still alive, and every group that is no
\* longer in alivePods has been cancelled.
C4_AliveWithinSnapshot ==
    (prevRound.valid /\ ~inRound) =>
        /\ AliveKeys \subseteq snapshot
        /\ \A k \in affirmed :
              (ShouldForward(k) \/ ShouldMount(k)) => alivePods[k] # NoGroup
        /\ \A g \in Made : alivePods[grpKey[g]] # g => ctxDone[g]

\* A round ended in which one key was cancelled and another was kept.
C4_Witness ==
    /\ prevRound.valid
    /\ ~inRound
    /\ AliveKeys # {}
    /\ \E g \in Made : ctxDone[g] /\ grpKey[g] \notin AliveKeys

\* C5: when cancelUnwanted has finished its range in a round that passed to start
\* the same keys as the round before, alivePods holds the same records as after
\* the round before and the round made no new group (started no worker).
C5_RoundIdempotent ==
    (inRound /\ pc["w"] = "cu_loop" /\ todo["w"] = {} /\ prevRound.valid
        /\ affirmed = prevRound.set) =>
        /\ alivePods = prevRound.alive
        /\ nGroups = roundBase

\* A second round with the same, non-empty set of keys is about to return.
C5_Witness ==
    /\ inRound
    /\ pc["w"] = "cu_loop"
    /\ todo["w"] = {}
    /\ prevRound.valid
    /\ affirmed = prevRound.set
    /\ AliveKeys # {}

\* C6: every channel getOrCreateMountsDone made is closed in the end; stated for
\* a finite run: a channel that is not closed is still held by the tracker (in
\* mountsReady, or read by a deferred close that has yet to run), since a channel
\* that nothing holds can never be closed.
C6_ChannelNeverLost ==
    \A ch \in 1..nChans :
        closes[ch] = 0 =>
            \/ \E k \in Keys : mountsReady[k] = ch
            \/ \E c \in Callers : md[c] = ch

\* C7: no mount-ready channel is closed more than once.
C7_NoDoubleClose == \A ch \in Chans : closes[ch] <= 1

C9_LockFreeWhileWaiting ==
    /\ \A c \in Callers : pc[c] = "cu_wait" => lock # c
    /\ \A c \in Callers : pc[c] = "cu_loop" => lock = c
    /\ \A c \in Callers : pc[c] \in {"idle", "st_defer", "st_close"} => lock # c
    /\ ~unlockErr

\* While "w" waits for the workers of a key, "x" has asked for and got a
\* mount-ready channel for that key.
C9_Witness ==
    /\ pc["w"] = "cu_wait"
    /\ Live(cur["w"])
    /\ mountsReady[grpKey[cur["w"]]] # NoChan

\* C10: a step that cancels the context of one group leaves the ingest's context
\* and the contexts of all other groups as they were.
C10_CancelPodOnly ==
    [][\A g \in Made :
          (ctxDone'[g] /\ ~ctxDone[g]) =>
              /\ iceptDone' = iceptDone
              /\ \A h \in Made \ {g} : ctxDone'[h] = ctxDone[h]]_vars

\* One group is cancelled while another group of the same ingest is alive with
\* running workers and a context that is not done.
C10_Witness ==
    \E g \in Made, h \in Made :
        /\ ctxDone[g]
        /\ alivePods[grpKey[h]] = h
        /\ Live(h)
        /\ ~Cancelled(h)

\* C11: after a pod-sync is cancelled, every port forward and every mount that
\* was started for its key terminates.
C11_CancelledWorkersTerminate ==
    \A g \in Groups : (g \in Made /\ ctxDone[g]) ~> (~Live(g) \/ panicked)

\* C12: a start for a podAccess that needs neither a port forward nor a mount
\* launches no worker, makes no group (no cancellation scope) and leaves
\* alivePods, with every entry in it, as it was.
C12_NoopStart ==
    [][\A c \in Callers, fk \in Keys :
          (pc[c] = "idle" /\ pc'[c] = "st_defer" /\ arg'[c] = fk
              /\ ~ShouldForward(fk) /\ ~ShouldMount(fk)) =>
              /\ nGroups' = nGroups
              /\ alivePods' = alivePods
              /\ grpKey' = grpKey
              /\ ctxDone' = ctxDone
              /\ wg' = wg
              /\ fwd' = fwd
              /\ mnt' = mnt]_vars

\* "w" has just called start for a podAccess that needs nothing while a group
\* started earlier is alive with a running worker.
C12_Witness ==
    /\ pc["w"] = "st_defer"
    /\ ~ShouldForward(arg["w"])
    /\ ~ShouldMount(arg["w"])
    /\ \E k \in AliveKeys : Live(alivePods[k])

\* C13: when watchAgentsLoop has returned, alivePods is empty and no port forward
\* or mount goroutine started through the tracker is running.
C13_ReturnedMeansAllCancelled ==
    loopPc = "returned" =>
        /\ AliveKeys = {}
        /\ \A g \in Made : ~Live(g)

\* C14: an Ingest request whose mount point or mount port is used by a current
\* intercept is rejected with AlreadyExists and changes nothing: no ingest is
\* stored, EnsureAgent is not called, nothing is started.
C14_ConflictRejected ==
    [][\A rq \in {last'.rq} \cap Requests, eo \in BOOLEAN, tr \in BOOLEAN :
          (/\ Ingest(rq, eo, tr)
           /\ \E ic \in currentIntercepts :
                 \/ rq.mp # "" /\ ic.mp = rq.mp
                 \/ rq.port # 0 /\ ic.port = rq.port) =>
              /\ last'.err = "AlreadyExists"
              /\ currentIngests' = currentIngests
              /\ ~last'.ensured
              /\ ~last'.started]_vars

\* C14, amended: such a request changes nothing, and it is rejected with
\* AlreadyExists unless the workload's agent is in the current snapshot and
\* either the request's key already has an ingest, whose response is then
\* returned, or the container cannot be determined, which is then the error.
C14_ConflictChangesNothing ==
    [][\A rq \in {last'.rq} \cap Requests, eo \in BOOLEAN, tr \in BOOLEAN :
          (/\ Ingest(rq, eo, tr)
           /\ \E ic \in currentIntercepts :
                 \/ rq.mp # "" /\ ic.mp = rq.mp
                 \/ rq.port # 0 /\ ic.port = rq.port) =>
              /\ currentIngests' = currentIngests
              /\ ~last'.ensured
              /\ ~last'.started
              /\ \/ last'.err = "AlreadyExists"
                 \/ /\ rq.workload \in currentAgents
                    /\ \/ /\ last'.err = ""
                          /\ last'.key \in IngestKeys
                          /\ last'.key[1] = rq.workload
                          /\ currentIngests[last'.key] # NoIngest
                       \/ /\ rq.container = ""
                          /\ Cardinality(agentCtr[rq.workload]) # 1
                          /\ last'.err \in {"Unimplemented", "NotFound"}]_vars

C14_Witness ==
    /\ last.err = "AlreadyExists"
    /\ last.rq.mp # ""
    /\ \E ic \in currentIntercepts : ic.mp = last.rq.mp
    /\ \E k \in IngestKeys : currentIngests[k] # NoIngest

\* C15: an Ingest request whose mount point is the mount point of an ingest of
\* another workload is rejected, and no second ingest is stored.
C15_IngestConflictRejected ==
    [][\A rq \in {last'.rq} \cap Requests, eo \in BOOLEAN, tr \in BOOLEAN :
          (/\ Ingest(rq, eo, tr)
           /\ rq.mp # ""
           /\ \E k \in IngestKeys :
                 /\ k[1] # rq.workload
                 /\ currentIngests[k] # NoIngest
                 /\ currentIngests[k].mp = rq.mp) =>
              /\ last'.err # ""
              /\ currentIngests' = currentIngests]_vars

\* C16: a repeated Ingest request, one whose (workload, container) key already
\* has an ingest with the request's mount point and port, returns that
\* ingest's response, stores nothing and starts nothing, provided no intercept
\* uses the mount, the agent still has the container and, when the agent is
\* not in the current snapshot, the EnsureAgent and environment calls succeed.
C16_IngestRepeat ==
    [][\A rq \in {last'.rq} \cap Requests, eo \in BOOLEAN, tr \in BOOLEAN :
          LET w == rq.workload
              k == <<w, IF rq.container = "" /\ Cardinality(agentCtr[w]) = 1
                        THEN CHOOSE c \in agentCtr[w] : TRUE
                        ELSE rq.container>>
          IN  (/\ Ingest(rq, eo, tr)
               /\ k \in IngestKeys
               /\ currentIngests[k] = [mp |-> rq.mp, port |-> rq.port]
               /\ k[2] \in agentCtr[w]
               /\ \A ic \in currentIntercepts :
                     /\ ~(rq.mp # "" /\ ic.mp = rq.mp)
                     /\ ~(rq.port # 0 /\ ic.port = rq.port)
               /\ (w \in currentAgents \/ (eo /\ tr))) =>
                  /\ last'.err = ""
                  /\ last'.key = k
                  /\ currentIngests' = currentIngests
                  /\ ~last'.started]_vars

C16_Witness ==
    /\ last.err = ""
    /\ ~last.started
    /\ last.ensured
    /\ last.rq.mp # ""
    /\ last.key \in IngestKeys
    /\ currentIngests[last.key] = [mp |-> last.rq.mp, port |-> last.rq.port]

\* C17: the override variant is started outside a container only when
\* tryResolveD returned the sentinel; after any other error of tryResolveD the
\* override variant is never started and Worker returns that error.
C17_DemotesOnlyOnSentinel ==
    /\ (OverrideStarted /\ ~inContainer) => rdRet.res = "sentinel"
    /\ rdRet.res = "error" =>
          /\ ~OverrideStarted
          /\ wk = "returned" => workerErr = "resolved_error"

C17_Witness ==
    /\ wk = "returned"
    /\ rdRet.res = "error"
    /\ workerErr = "resolved_error"

\* C18: at most one variant is active: the override variant is not started
\* while tryResolveD runs; in a container it is started without a call of
\* tryResolveD; and when c is already cancelled at the moment tryResolveD
\* returns the sentinel, the override variant is never started and Worker
\* returns nil.
C18_OneVariant ==
    /\ ~(wk = "resolved" /\ OverrideStarted)
    /\ (inContainer /\ wk # "idle") => (OverrideStarted /\ rdRet.res = "none")
    /\ (rdRet.res = "sentinel" /\ rdRet.cancelled /\ wk # "decide") =>
          /\ ~OverrideStarted
          /\ wk = "returned"
          /\ workerErr = "nil"

C18_Witness ==
    /\ rdRet.res = "sentinel"
    /\ rdRet.cancelled
    /\ wk = "returned"

C20_UnrouteBeforeListenersClose ==
    [][(nat = "unroute" /\ nat' = "flush") => listeners = "open"]_vars

\* C20, amended: the deferred unrouteDNS of the shutdown runs only after the
\* DNS server has returned: serverDone is closed and the listeners are closed.
C20_UnrouteAfterServerDone ==
    [][(nat = "unroute" /\ nat' = "flush") => (serverDone /\ listeners = "closed")]_vars

C20_Witness ==
    /\ nat = "flush"
    /\ ~fwChain
    /\ listeners = "closed"

\* C21: the pool is closed only when the DNS server has returned with its
\* listeners closed and every goroutine of the group has returned, and a
\* runOverridingServer that created the pool has closed it when it returns.
C21_PoolClosedLast ==
    /\ pool = "closed" =>
          /\ srv = "done"
          /\ listeners = "closed"
          /\ nat = "done"
          /\ ldns \in {"none", "done"}
    /\ (wk = "returned" /\ pool # "none") => pool = "closed"

C21_Witness ==
    /\ wk = "returned"
    /\ pool = "closed"
    /\ fwRun
    /\ listeners = "closed"

\* C22: whenever routeDNS is not in the middle of its commands, the chain
\* TELEPRESENCE_DNS does not exist or holds all of its rules: one RETURN per
\* pool address, then the DNAT rule.
C22_ChainAbsentOrComplete ==
    nat # "route" => (~fwChain \/ \E n \in 1..MaxAddrs : fwRules = ChainRules(n))

\* C23: when routeDNS returns an error, OUTPUT holds no jump to the chain.
C23_FailedRouteLeavesNoJump ==
    [][(nat = "route" /\ nat' = "done") => Jumps' = 0]_vars

\* C24: when routeDNS has succeeded the chain holds exactly one RETURN rule
\* per pool address, in order, followed by the DNAT rule; a jump is added to
\* OUTPUT only when the chain holds all of these rules, and at position 1.
C24_RulesThenJump ==
    [][/\ nat' = "serving" => fwRules' = ChainRules(poolAddrs')
       /\ Jumps' > Jumps =>
             /\ fwRules = ChainRules(poolAddrs)
             /\ fwRules' = fwRules
             /\ fwOutput' = <<"jump">> \o fwOutput]_vars

C24_Witness ==
    /\ nat = "serving"
    /\ poolAddrs = MaxAddrs
    /\ fwOutput = <<"jump", "other">>

\* C25: after a successful routeDNS, OUTPUT holds exactly one jump to the
\* chain, also when routeDNS ran on what earlier runs left behind, and the
\* commands of unrouteDNS then leave neither chain nor jump.
C25_RouteUnrouteRestores ==
    nat = "serving" =>
        /\ Jumps = 1
        /\ LET f == RunAll(unrouteDNS, Fw)
           IN  ~f.chain /\ JumpsIn(f.output) = 0 /\ f.output = <<"other">>

C25_Witness ==
    /\ nat = "flush"
    /\ ~fwChain
    /\ fwOutput = <<"other">>
    /\ fwRun

\* C26: when s.LocalIP is not configured and the resolver file, which could be
\* read, has no nameserver or an invalid first nameserver, runOverridingServer
\* has returned an error without binding a listener, creating the pool or
\* running an iptables command.
C26_NoDnsIpFailsEarly ==
    (wk = "returned" /\ ~ovIn.ipSet /\ ovIn.read /\ ovIn.ns # "valid") =>
        /\ workerErr \in {"ns_invalid", "no_dns_ip"}
        /\ listeners = "none"
        /\ pool = "none"
        /\ ~fwRun

C26_Witness ==
    /\ wk = "returned" /\ ~ovIn.ipSet /\ ovIn.read /\ ovIn.ns = "none"
    /\ workerErr = "no_dns_ip" /\ listeners = "none" /\ pool = "none" /\ ~fwRun

\* C27: every entry of s.dropSuffixes is normalized, whatever the search
\* entries of the resolver file were: lower-cased, not empty, no leading dot
\* and exactly one trailing dot.
C27_DropSuffixesNormalized ==
    \A i \in 1..Len(dropSuffixes) :
        LET e == dropSuffixes[i]
        IN  /\ Len(e) > 0
            /\ e[1] # "."
            /\ e[Len(e)] = "."
            /\ Len(e) > 1 => e[Len(e) - 1] # "."
            /\ \A j \in 1..Len(e) : e[j] # "A"

\* C28: once runOverridingServer has returned from a run whose context was
\* cancelled, at whatever point, the pool it created is closed and the nat
\* table has no chain TELEPRESENCE_DNS and no jump to it from OUTPUT.
C28_CancelRestoresFirewall ==
    (wk = "returned" /\ dctx /\ pool # "none") =>
        /\ pool = "closed"
        /\ ~fwChain
        /\ Jumps = 0

\* C29 (as stated): watchAgentsLoop returns nil when Recv failed because the
\* context was cancelled or the stream ended, and an error when Recv failed in
\* any other way, each time after handling an empty snapshot.
C29_RecvFailureReturn ==
    [][(loopPc = "last" /\ loopPc' = "returned") =>
          /\ snapshot = {}
          /\ recvErr \in {"canceled", "eof"} => loopRet' = "nil"
          /\ recvErr = "other" => loopRet' = "error"]_vars

\* C29 (amended): as above, but another Recv failure is returned as an error
\* only if the context is still live when the empty snapshot has been handled.
C29_RecvFailureReturnUnlessCancelled ==
    [][(loopPc = "last" /\ loopPc' = "returned") =>
          /\ snapshot = {}
          /\ recvErr \in {"canceled", "eof"} => loopRet' = "nil"
          /\ (recvErr = "other" /\ ~sessDone) => loopRet' = "error"
          /\ (recvErr = "other" /\ sessDone) => loopRet' = "nil"]_vars

C29_Witness == loopPc = "returned" /\ recvErr = "other" /\ loopRet = "error" /\ ~sessDone

\* C30: no key of the DNS cache ever has more than one call to the cluster or
\* upstream resolver outstanding; a query for a key whose call is in flight
\* attaches to that call, and every query attached to a call receives the
\* result of that call.
C30_OneCallPerKey ==
    [][\A k \in CacheKeys :
          /\ cacheCalls'[k] <= 1
          /\ cacheCalls[k] = 1 => cacheCalls'[k] <= cacheCalls[k]
          /\ \A q \in Queries :
                (cacheWait[q] = k /\ cacheWait'[q] # k) =>
                    /\ cacheCalls'[k] = 0
                    /\ cacheEntry'[k].state = "cached"
                    /\ cacheAns'[q] = cacheEntry'[k].val]_vars

C30_Witness ==
    \E k \in CacheKeys :
        /\ cacheCalls[k] = 1
        /\ Cardinality({q \in Queries : cacheWait[q] = k}) >= 2

\* C31: the pool never has more than PoolCap sockets acquired; an acquire on an
\* open pool whose sockets are all acquired waits, a waiting acquire goes on
\* only with a socket that another caller releases, and closing the pool makes
\* every waiting acquire fail: none is left waiting on a closed pool.
C31_AcquireBlocksAndCloseFails ==
    [][/\ Cardinality(Acquired') <= PoolCap
       /\ \A c \in PoolCallers :
             /\ (connPool.st[c] = "idle" /\ connPool.open /\ Cardinality(Acquired) = PoolCap
                    /\ connPool'.st[c] # "idle") => connPool'.st[c] = "blocked"
             /\ (connPool.st[c] = "blocked" /\ connPool'.st[c] = "holding") =>
                    \E d \in PoolCallers : connPool.st[d] = "holding" /\ connPool'.st[d] = "idle"
             /\ (connPool.st[c] = "blocked" /\ connPool'.st[c] = "blocked") =>
                    Cardinality(Acquired') = PoolCap
             /\ (connPool.st[c] = "blocked" /\ ~connPool'.open) => connPool'.st[c] = "failed"
             /\ ~connPool'.open => connPool'.st[c] # "blocked"]_vars

C31_Witness ==
    /\ ~connPool.open
    /\ Cardinality(Acquired) = PoolCap
    /\ \E c \in PoolCallers : connPool.st[c] = "failed"

\* The last digit of the longest run of digits and dots that starts with the
\* digit at i: dots at the ends of a run are punctuation.
RECURSIVE TokenEnd(_, _, _)
TokenEnd(s, i, e) ==
    IF i < Len(s) /\ s[i + 1] \in EnvDigits \cup {"."}
    THEN TokenEnd(s, i + 1, IF s[i + 1] \in EnvDigits THEN i + 1 ELSE e)
    ELSE e

\* The value s with every address-like substring, a longest run of digits and
\* inner dots, replaced when it is an address the provider maps and kept
\* otherwise.
RECURSIVE TranslatedByToken(_, _, _)
TranslatedByToken(mapped, s, i) ==
    IF i > Len(s) THEN [s |-> <<>>, mapped |-> mapped]
    ELSE IF s[i] \notin EnvDigits
         THEN LET rest == TranslatedByToken(mapped, s, i + 1)
              IN  [s |-> <<s[i]>> \o rest.s, mapped |-> rest.mapped]
         ELSE LET e == TokenEnd(s, i, i)
                  r == ReplaceMatch(mapped, SubSeq(s, i, e))
                  rest == TranslatedByToken(r.mapped, s, e + 1)
              IN  [s |-> r.s \o rest.s, mapped |-> rest.mapped]

\* C32: after TranslateEnvironmentIPs the environment has the keys it had, and
\* every value is the old value with each address the provider maps replaced
\* by its local address, the same one for the same address, and with every
\* other address and every address-like substring that is not an address
\* left as it was.
C32_TranslatesAddressesOnly ==
    envT.called =>
        /\ DOMAIN envT.out = DOMAIN envT.env
        /\ IF envT.v4
           THEN LET r1 == TranslatedByToken(<<>>, envT.env["k1"], 1)
                    r2 == TranslatedByToken(r1.mapped, envT.env["k2"], 1)
                IN  envT.out["k1"] = r1.s /\ envT.out["k2"] = r2.s
           ELSE envT.out = envT.env

\* The argument a is the flag looked for: its part before the equal sign is
\* the long form, or a group of short flags with the short form in it.
IsFlagArg(long, short, a) ==
    LET fp == Cut(a).flag
    IN  \/ long # <<>> /\ fp = <<"-", "-">> \o long
        \/ /\ short # "" /\ Len(fp) >= 2 /\ fp[1] = "-" /\ fp[2] # "-"
           /\ \E i \in 2..Len(fp) : fp[i] = short

\* C33: a call of ConsumeUnparsedValue that returns an error or found=false
\* returns the empty value and the arguments as they were; a call that returns
\* found=true has removed the flag looked for from one argument and nothing
\* else: the whole argument, the argument and the separate value after it, or
\* the short form out of a group of short flags.
C33_ConsumesOnlyTheFlag ==
    (flagT.called /\ ~flagT.panic) =>
        /\ (flagT.err \/ ~flagT.found) => flagT.val = <<>> /\ flagT.out = flagT.args
        /\ flagT.err => ~flagT.found
        /\ flagT.found =>
              \E i \in 1..Len(flagT.args) :
                 LET a == flagT.args[i]
                     c == Cut(a)
                 IN  /\ IsFlagArg(flagT.long, flagT.short, a)
                     /\ \/ flagT.out = Delete(flagT.args, i, i + 1)
                        \/ /\ i < Len(flagT.args)
                           /\ flagT.val = flagT.args[i + 1]
                           /\ flagT.out = Delete(flagT.args, i, i + 2)
                        \/ \E k \in 2..Len(c.flag) :
                              LET g == SubSeq(c.flag, 1, k - 1) \o SubSeq(c.flag, k + 1, Len(c.flag))
                              IN  /\ Len(c.flag) > 2
                                  /\ c.flag[k] = flagT.short
                                  /\ \/ flagT.out = [flagT.args EXCEPT ![i] = g]
                                     \/ flagT.out = [flagT.args EXCEPT ![i] = g \o <<"=">> \o c.val]
                                     \/ /\ i < Len(flagT.args)
                                        /\ flagT.val = flagT.args[i + 1]
                                        /\ flagT.out =
                                              Delete([flagT.args EXCEPT ![i] = g], i + 1, i + 2)

\* The mount goroutines of the mounter of ingest i that hold its mutex: they
\* are past m.Lock() and have not finished the unmount and m.Unlock().
Mounting(i) == {g \in Made : IngestOf(grpKey[g]) = i /\ mnt[g] = "mounted"}

\* C34: a mounter never has two mount goroutines between m.Lock() and
\* m.Unlock(), and a mount goroutine gets past m.Lock() only when no other
\* goroutine of the mounter is before the end of its unmount.
C34_OneMountPerMounter ==
    [][\A i \in Ingests :
          /\ Cardinality(Mounting(i)') <= 1
          /\ \A g \in Made : (g \in Mounting(i)' /\ g \notin Mounting(i)) => Mounting(i) = {}]_vars

C34_Witness ==
    \E i \in Ingests, g \in Made, h \in Made :
        /\ g # h
        /\ IngestOf(grpKey[g]) = i /\ IngestOf(grpKey[h]) = i
        /\ grpKey[g] # grpKey[h]
        /\ mnt[g] = "mounted" /\ mnt[h] = "queued"

\* C35: an ftpMounter mounts successfully at most once; a Start after the
\* successful mount makes no Mount call and at most switches the address of
\* the FTP server; Unmount is called at most once, only for a mounted file
\* system whose context is cancelled, and it has been called once when the
\* goroutine that waits for the cancellation is done.
C35_MountOnceUnmountOnce ==
    [][/\ ftpM'.mounts <= 1
       /\ ftpM'.unmounts <= ftpM'.mounts
       /\ (ftpM.id /\ ftpM'.starts > ftpM.starts) =>
             /\ ftpM'.mounts = ftpM.mounts
             /\ ftpM'.last \in {"switched", "switch_error"}
       /\ ftpM'.unmounts > ftpM.unmounts => ftpM.ctxDone /\ ftpM.id
       /\ (ftpM'.id /\ ftpM'.ctxDone /\ ftpM'.gor # "waiting") => ftpM'.unmounts = 1]_vars

C35_Witness ==
    /\ ftpM.mounts = 1 /\ ftpM.unmounts = 1 /\ ftpM.starts = MaxStarts
    /\ ftpM.last = "switch_error" /\ ftpM.addr = "10.0.0.6:21"

\* C36: in intercept mode the Work of the translator starts only after the
\* DNS server and the proxy are ready, the bootstrap table with the DNS
\* redirect is installed only after the translator is ready, the self check
\* runs only after the translator, the API server, the DNS server, the proxy
\* and the DNS configuration are ready, and once the DNS server has failed to
\* start the translator has not started and the redirect is not installed.
C36_StartupOrder ==
    [][/\ (tp.st["NAT"] = "waiting" /\ tp'.st["NAT"] # "waiting") =>
             {"DNS", "PXY"} \subseteq {w \in Workers : tp.st[w] \in {"ready", "exited"}}
       /\ (~tp.redirect /\ tp'.redirect) => tp.st["NAT"] \in {"ready", "exited"}
       /\ (tp.check = "none" /\ tp'.check # "none") =>
             \A w \in {"NAT", "API", "DNS", "PXY", "CFG"} : tp.st[w] \in {"ready", "exited"}
       /\ tp'.st["DNS"] = "failed" =>
             tp'.st["NAT"] = "waiting" /\ tp'.st["CFG"] = "waiting" /\ ~tp'.redirect]_vars

C36_Witness ==
    /\ tp.check = "passed" /\ tp.redirect
    /\ \A w \in Workers : tp.st[w] = "ready"

\* C39: after every UpdateRoutes call the set of routedSubnets is the set of
\* the subnets of pleaseProxy, RemoveSubnet was called exactly for the
\* subnets routed before the call that are not in pleaseProxy, and a call
\* with the pleaseProxy of the call before it makes no AddSubnet and no
\* RemoveSubnet call.
C39_RoutesFollowRequest ==
    rtr.called > 0 =>
        /\ {rtr.routedSubnets[i] : i \in DOMAIN rtr.routedSubnets}
              = {rtr.pleaseProxy[i] : i \in DOMAIN rtr.pleaseProxy}
        /\ {rtr.removed[i] : i \in DOMAIN rtr.removed}
              = {rtr.prevRouted[i] : i \in DOMAIN rtr.prevRouted}
                   \ {rtr.pleaseProxy[i] : i \in DOMAIN rtr.pleaseProxy}
        /\ (rtr.called > 1 /\ rtr.prevProxy = rtr.pleaseProxy) =>
              rtr.added = <<>> /\ rtr.removed = <<>>

C39_Witness ==
    /\ rtr.called > 1
    /\ rtr.prevProxy = rtr.pleaseProxy
    /\ rtr.pleaseProxy = <<"10.96.0.0/12", "10.0.0.0/8">>
    /\ rtr.routedSubnets = <<"10.0.0.0/8", "10.96.0.0/12">>
    /\ rtr.device = {"10.96.0.0/12"}

\* C37: when handleAgentSnapshot visits an ingest it keeps the pod of the
\* ingest if an agent with that pod name is in the snapshot, else takes the
\* pod of the first agent of the snapshot that has the workload and the
\* container of the ingest, and it calls start for the ingest, with the key
\* of that pod, exactly when there is such an agent; when the round of an
\* ingest without such an agent ends, no pod access of the ingest is alive
\* and the context of every one made is cancelled.
C37_PodKeptOrFirstMatch ==
    [][LET infos == agentSnap.infos
           matching == {n \in DOMAIN infos :
                           infos[n].Name = "echo" /\ "c1" \in infos[n].Containers}
           first == CHOOSE n \in matching : \A m \in matching : n <= m
       IN /\ (~agentSnap.ranged /\ agentSnap'.ranged) =>
                /\ (\E n \in DOMAIN infos : infos[n].PodName = agentSnap.PodName) =>
                      agentSnap'.PodName = agentSnap.PodName
                /\ ((\A n \in DOMAIN infos : infos[n].PodName # agentSnap.PodName)
                      /\ matching # {}) =>
                      agentSnap'.PodName = infos[first].PodName
                /\ matching = {} => affirmed' = affirmed /\ pc'["w"] = "idle"
                /\ matching # {} =>
                      /\ pc'["w"] = "st_defer"
                      /\ affirmed' = {IF agentSnap'.PodName = "echo-5"
                                      THEN "c1/10.0.0.5" ELSE "c1/10.0.0.6"}
          /\ (inRound /\ ~inRound' /\ matching = {}) =>
                /\ \A k \in Keys : alivePods'[k] = NoGroup
                /\ \A g \in 1..nGroups : ctxDone'[g] \/ iceptDone'["A"]]_vars

C37_Witness ==
    /\ ~inRound
    /\ agentSnap.ranged
    /\ agentSnap.PodName = "echo-6"
    /\ agentSnap.infos = <<[Name |-> "echo", PodName |-> "echo-7", Containers |-> {"c2"}],
                           [Name |-> "echo-env", PodName |-> "echo-env-1", Containers |-> {"c1"}]>>
    /\ nGroups = 2
    /\ ctxDone[1] /\ ctxDone[2]
    /\ ~iceptDone["A"]

\* C38: two different pods of one ingest never have running port forwards
\* or an established mount at the same time.
C38_OnePodLive ==
    \A g1, g2 \in 1..nGroups :
        (grpKey[g1] # grpKey[g2] /\ IngestOf(grpKey[g1]) = IngestOf(grpKey[g2])) =>
            ~((fwd[g1] > 0 \/ mnt[g1] = "mounted") /\ (fwd[g2] > 0 \/ mnt[g2] = "mounted"))

====
